---- MODULE Spec2Model ----
(***************************************************************************)
(* Study Bible Compendium: reference parsing, book resolution and the      *)
(* passage / context-window / parallel query facades over the              *)
(* verses_normalized table (sbc/search.py, sbc/context.py,                 *)
(* sbc/parallel.py, sbc/loader.py, compendium.py).                         *)
(*                                                                         *)
(* Python strings are modelled as sequences of one-character strings, so   *)
(* that strip, rindex, split, lower, upper and int are computed the way    *)
(* the interpreter computes them.                                          *)
(***************************************************************************)
EXTENDS Integers, Sequences, FiniteSets, TLC

VARIABLES canon, dbFile, dbReady, verses, translations, last,
          policy, runs, canonical, verse_id, verseIdColumn,
          berean_verses, coreReady, core_passages, verse_notes, greek_margins

vars ==
  <<canon, dbFile, dbReady, verses, translations, last,
    policy, runs, canonical, verse_id, verseIdColumn,
    berean_verses, coreReady, core_passages, verse_notes, greek_margins>>

\* the init-policy processes that may be running at the same time
Procs == {1, 2}

\* a text file of the project: whether it exists, and its characters
PolicyFile(exists, content) == [exists |-> exists, content |-> content]

NoFile == PolicyFile(FALSE, <<>>)

\* a process that is not running init-policy
NoRun ==
  [pc |-> "idle", schema |-> FALSE, preface_file |-> NoFile,
   body_file |-> NoFile, preface |-> <<>>, body |-> <<>>]

\* hermeneutical_policy and the init-policy runs
policyTables == <<policy, runs>>

\* canonical_verses, the verse_id column of verses_normalized (0 for NULL)
\* and whether the column has been added
spineTables == <<canonical, verse_id, verseIdColumn>>

\* the id and verse_ref columns of berean_verses, whether the core
\* passage schema has been created, and its three tables
coreTables ==
  <<berean_verses, coreReady, core_passages, verse_notes, greek_margins>>

\* the tables and processes of the other commands
otherTables == <<policyTables, spineTables, coreTables>>

\* a database in which neither init-policy nor build-spine has run
CommandTablesEmpty ==
  /\ policy = {}
  /\ runs = [p \in Procs |-> NoRun]
  /\ canonical = {}
  /\ verse_id = <<>>
  /\ verseIdColumn = FALSE

\* a database without verses of the Berean import and without the core
\* passage schema
CoreTablesEmpty ==
  /\ berean_verses = {}
  /\ coreReady = FALSE
  /\ core_passages = {}
  /\ verse_notes = {}
  /\ greek_margins = {}

\* a database in which none of the other commands has run
OtherTablesEmpty == CommandTablesEmpty /\ CoreTablesEmpty

----------------------------------------------------------------------------
(* Characters and the str methods the parsers use.                         *)

UpperLetters ==
  <<"A","B","C","D","E","F","G","H","I","J","K","L","M",
    "N","O","P","Q","R","S","T","U","V","W","X","Y","Z">>

LowerLetters ==
  <<"a","b","c","d","e","f","g","h","i","j","k","l","m",
    "n","o","p","q","r","s","t","u","v","w","x","y","z">>

DigitChars == <<"0","1","2","3","4","5","6","7","8","9">>

IsSpace(c) == c \in {" ", "\t", "\n", "\r"}

DigitMap == [c \in {DigitChars[i] : i \in 1..10} |->
               (CHOOSE i \in 1..10 : DigitChars[i] = c) - 1]

LowerMap == [c \in {UpperLetters[i] : i \in 1..26} |->
               LowerLetters[CHOOSE i \in 1..26 : UpperLetters[i] = c]]

UpperMap == [c \in {LowerLetters[i] : i \in 1..26} |->
               UpperLetters[CHOOSE i \in 1..26 : LowerLetters[i] = c]]

IsDigit(c) == c \in DOMAIN DigitMap

DigitVal(c) == DigitMap[c]

LowerChar(c) == IF c \in DOMAIN LowerMap THEN LowerMap[c] ELSE c

UpperChar(c) == IF c \in DOMAIN UpperMap THEN UpperMap[c] ELSE c

\* str.lower()
Lower(s) == [i \in 1..Len(s) |-> LowerChar(s[i])]

\* str.upper()
Upper(s) == [i \in 1..Len(s) |-> UpperChar(s[i])]

SetMin(S) == CHOOSE x \in S : \A y \in S : x <= y

SetMax(S) == CHOOSE x \in S : \A y \in S : x >= y

RECURSIVE LStrip(_)
LStrip(s) == IF s # <<>> /\ IsSpace(Head(s)) THEN LStrip(Tail(s)) ELSE s

RECURSIVE RStrip(_)
RStrip(s) ==
  IF s # <<>> /\ IsSpace(s[Len(s)]) THEN RStrip(SubSeq(s, 1, Len(s) - 1))
  ELSE s

\* str.strip(): drop leading and trailing whitespace
Strip(s) == RStrip(LStrip(s))

RECURSIVE LastAt(_, _, _)
LastAt(s, c, i) ==
  IF i = 0 THEN 0 ELSE IF s[i] = c THEN i ELSE LastAt(s, c, i - 1)

RECURSIVE FirstAt(_, _, _)
FirstAt(s, c, i) ==
  IF i > Len(s) THEN 0 ELSE IF s[i] = c THEN i ELSE FirstAt(s, c, i + 1)

\* mutant: the first occurrence instead of the last
RIndex_first(s, c) == FirstAt(s, c, 1)

\* s.rindex(c), with 0 standing for the ValueError of a missing character
RIndex(s, c) == LastAt(s, c, Len(s))

\* position of the first c in s (0 when absent): "c in s" and split(c, 1)
Index(s, c) == FirstAt(s, c, 1)

Contains(s, c) == Index(s, c) # 0

\* s.split(c, 1)[0] and s.split(c, 1)[1], for s containing c
SplitHead(s, c) == SubSeq(s, 1, Index(s, c) - 1)

SplitTail(s, c) == SubSeq(s, Index(s, c) + 1, Len(s))

----------------------------------------------------------------------------
(* int(str).  Python accepts surrounding whitespace, one optional sign and *)
(* decimal digits that may be grouped by single underscores; the result is *)
(* unbounded.  SQLite binds only signed 64-bit integers; a value outside   *)
(* that range is carried as +/-BeyondInt64, standing for any such integer. *)

Int64MaxDigits ==
  <<"9","2","2","3","3","7","2","0","3","6","8","5","4","7","7","5","8","0","7">>

Int64MinDigits ==
  <<"9","2","2","3","3","7","2","0","3","6","8","5","4","7","7","5","8","0","8">>

BeyondInt64 == 1000000000

RECURSIVE DropLeadingZeros(_)
DropLeadingZeros(d) ==
  IF Len(d) > 1 /\ d[1] = "0" THEN DropLeadingZeros(Tail(d)) ELSE d

\* the decimal magnitude d is greater than the decimal magnitude limit
MagnitudeExceeds(d, limit) ==
  LET n == DropLeadingZeros(d)
  IN  \/ Len(n) > Len(limit)
      \/ /\ Len(n) = Len(limit)
         /\ \E i \in 1..Len(n) :
              /\ DigitVal(n[i]) > DigitVal(limit[i])
              /\ \A j \in 1..(i - 1) : n[j] = limit[j]

RECURSIVE DigitsValue(_)
DigitsValue(d) ==
  IF d = <<>> THEN 0
  ELSE DigitsValue(SubSeq(d, 1, Len(d) - 1)) * 10 + DigitVal(d[Len(d)])

ValueError == [ok |-> FALSE, val |-> 0]

\* the digits of a numeral: decimal digits, any two of which may be
\* separated by one underscore
ValidNumeral(body) ==
  /\ body # <<>>
  /\ \A i \in 1..Len(body) : IsDigit(body[i]) \/ body[i] = "_"
  /\ IsDigit(body[1])
  /\ IsDigit(body[Len(body)])
  /\ \A i \in 1..(Len(body) - 1) : ~(body[i] = "_" /\ body[i + 1] = "_")

\* the integer with the given sign and decimal digits
SignedValue(sign, digits) ==
  IF MagnitudeExceeds(digits, IF sign = -1 THEN Int64MinDigits
                                           ELSE Int64MaxDigits)
    THEN [ok |-> TRUE, val |-> sign * BeyondInt64]
    ELSE [ok |-> TRUE, val |-> sign * DigitsValue(digits)]

SignedNumeral(sign, body) ==
  IF ValidNumeral(body) THEN SignedValue(sign, SelectSeq(body, IsDigit))
  ELSE ValueError

\* int() of a string without surrounding whitespace
StrippedInt(t) ==
  IF t # <<>> /\ t[1] \in {"+", "-"}
    THEN SignedNumeral(IF t[1] = "-" THEN -1 ELSE 1, Tail(t))
    ELSE SignedNumeral(1, t)

\* mutant: text that is not a number counts as 0
PyInt_default_zero(s) ==
  [ok |-> TRUE, val |-> StrippedInt(Strip(s)).val]

\* int(s)
PyInt(s) == StrippedInt(Strip(s))

\* the value can be bound to a SQLite INTEGER parameter
FitsSqliteInteger(n) == n > -BeyondInt64 /\ n < BeyondInt64

\* Python integer addition on the carried values
PyAdd(a, b) == IF FitsSqliteInteger(a) THEN a + b ELSE a

\* max(a, b)
PyMax(a, b) == IF a >= b THEN a ELSE b

\* str(int) for the decimal rendering of an f-string field
RECURSIVE NatToStr(_)
NatToStr(n) ==
  IF n < 10 THEN <<DigitChars[n + 1]>>
  ELSE NatToStr(n \div 10) \o <<DigitChars[(n % 10) + 1]>>

IntToStr(n) == IF n < 0 THEN <<"-">> \o NatToStr(-n) ELSE NatToStr(n)

----------------------------------------------------------------------------
(* String order of SQLite's BINARY collation (byte order of the ASCII      *)
(* characters the model uses) and ORDER BY over a result set.              *)

AsciiOrder ==
  <<"\t", " ", "+", "-", ".">> \o DigitChars \o <<":">> \o UpperLetters
    \o <<"_">> \o LowerLetters

RankMap == [c \in {AsciiOrder[i] : i \in 1..Len(AsciiOrder)} |->
              CHOOSE i \in 1..Len(AsciiOrder) : AsciiOrder[i] = c]

CharRank(c) == RankMap[c]

StrLess(a, b) ==
  \/ /\ Len(a) < Len(b)
     /\ \A i \in 1..Len(a) : a[i] = b[i]
  \/ \E i \in 1..SetMin({Len(a), Len(b)}) :
       /\ CharRank(a[i]) < CharRank(b[i])
       /\ \A j \in 1..(i - 1) : a[j] = b[j]

\* ORDER BY verse
ByVerse(r1, r2) == r1.verse < r2.verse

\* ORDER BY verse, translation_code
ByVerseThenTranslation(r1, r2) ==
  \/ r1.verse < r2.verse
  \/ r1.verse = r2.verse /\ StrLess(r1.translation_code, r2.translation_code)

\* rows of S in ascending ORDER BY verse
RECURSIVE OrderByVerse(_)
OrderByVerse(S) ==
  IF S = {} THEN <<>>
  ELSE LET first == CHOOSE r \in S : \A q \in S \ {r} : ~ByVerse(q, r)
       IN  <<first>> \o OrderByVerse(S \ {first})

\* rows of S in ascending ORDER BY verse, translation_code
RECURSIVE OrderByVerseTranslation(_)
OrderByVerseTranslation(S) ==
  IF S = {} THEN <<>>
  ELSE LET first == CHOOSE r \in S :
                      \A q \in S \ {r} : ~ByVerseThenTranslation(q, r)
       IN  <<first>> \o OrderByVerseTranslation(S \ {first})

----------------------------------------------------------------------------
(* The canon (data/canon.json) and the book lookup built from it.          *)

\* mutant: a built-in canon stands in for a missing canon.json
load_canon_builtin(canonFile) ==
  IF canonFile = <<>>
    THEN << [book_num |-> 1, code |-> <<"G","E","N">>,
             name |-> <<"G","e","n","e","s","i","s">>, testament |-> "OT"],
            [book_num |-> 43, code |-> <<"J","H","N">>,
             name |-> <<"J","o","h","n">>, testament |-> "NT"] >>
    ELSE canonFile

\* load_canon(): the entries of canon.json in file order; the empty
\* mapping when the file is absent
load_canon(canonFile) == canonFile

\* mutant: only the code and the name as given are stored as keys
BookKeys_as_given(meta) == {meta.code, meta.name}

\* for key in {code, code.lower(), name, name.lower()}
BookKeys(meta) ==
  {meta.code, Lower(meta.code), meta.name, Lower(meta.name)}

\* _build_book_lookup(canon): each book writes its four keys in canon
\* order, a later book overwriting an earlier book's key
build_book_lookup(c) ==
  LET keys == UNION {BookKeys(c[i]) : i \in 1..Len(c)}
  IN  [k \in keys |->
         c[SetMax({i \in 1..Len(c) : k \in BookKeys(c[i])})].book_num]

\* mutant: no retry with the lower-cased token
resolve_book_num_exact_only(book_str, book_lookup) ==
  IF book_str \in DOMAIN book_lookup THEN book_lookup[book_str] ELSE 0

\* for key in (book_str, book_str.lower()): first key present in the
\* lookup; 0 stands for num = None
resolve_book_num(book_str, book_lookup) ==
  IF book_str \in DOMAIN book_lookup THEN book_lookup[book_str]
  ELSE IF Lower(book_str) \in DOMAIN book_lookup
    THEN book_lookup[Lower(book_str)]
    ELSE 0

\* loader._resolve_book: the same two-step lookup on the import side
loader_resolve_book(book_str, book_lookup) ==
  LET key_exact == book_str
      key_lower == Lower(book_str)
  IN  IF key_exact \in DOMAIN book_lookup THEN book_lookup[key_exact]
      ELSE IF key_lower \in DOMAIN book_lookup THEN book_lookup[key_lower]
      ELSE 0

\* canon[num]["code"]
CanonCode(c, num) ==
  (c[CHOOSE i \in 1..Len(c) : c[i].book_num = num]).code

\* canon.get(num)["name"]
CanonName(c, num) ==
  (c[CHOOSE i \in 1..Len(c) : c[i].book_num = num]).name

----------------------------------------------------------------------------
(* The reference parsers.                                                  *)

NoReference ==
  [ok |-> FALSE, book |-> <<>>, chapter |-> 0, v_start |-> 0, v_end |-> 0]

Reference(b, c, s, e) ==
  [ok |-> TRUE, book |-> b, chapter |-> c, v_start |-> s, v_end |-> e]

\* v_start = v_end = int(verse_part)
single_verse(book_str, chapter, v) ==
  IF v.ok THEN Reference(book_str, chapter, v.val, v.val) ELSE NoReference

\* mutant: the two ends of a range are put in ascending order
verse_range_ordered(book_str, chapter, v_start, v_end) ==
  IF v_start.ok /\ v_end.ok
    THEN Reference(book_str, chapter,
                   IF v_start.val <= v_end.val THEN v_start.val ELSE v_end.val,
                   IF v_start.val <= v_end.val THEN v_end.val ELSE v_start.val)
    ELSE NoReference

\* v_start = int(start_str.strip()); v_end = int(end_str.strip())
verse_range(book_str, chapter, v_start, v_end) ==
  IF v_start.ok /\ v_end.ok
    THEN Reference(book_str, chapter, v_start.val, v_end.val)
    ELSE NoReference

\* if "-" in verse_part: split("-", 1) ... else: a single verse
stripped_verse_part(book_str, chapter, verse_part) ==
  IF Contains(verse_part, "-")
    THEN verse_range(book_str, chapter,
                     PyInt(Strip(SplitHead(verse_part, "-"))),
                     PyInt(Strip(SplitTail(verse_part, "-"))))
    ELSE single_verse(book_str, chapter, PyInt(verse_part))

\* mutant: the range end is read from the start field
parse_verse_part_end_from_start(book_str, chapter, verse_part0) ==
  LET r == stripped_verse_part(book_str, chapter, Strip(verse_part0))
  IN  [r EXCEPT !.v_end = r.v_start]

\* the verse part of search._parse_reference and
\* parallel._parse_reference_range: verse_part = verse_part.strip(), then
\* a range or a single verse
parse_verse_part(book_str, chapter, verse_part0) ==
  stripped_verse_part(book_str, chapter, Strip(verse_part0))

NoFields ==
  [ok |-> FALSE, book_str |-> <<>>, chap_str |-> <<>>, verse_part |-> <<>>]

\* chap_str, verse_part = cv_str.split(":", 1), after the ':' test
split_chapter_verse(book_str, cv_str) ==
  IF ~Contains(cv_str, ":") THEN NoFields
  ELSE [ok |-> TRUE, book_str |-> book_str,
        chap_str |-> SplitHead(cv_str, ":"),
        verse_part |-> SplitTail(cv_str, ":")]

\* book_str = s[:space_idx].strip(); cv_str = s[space_idx + 1:].strip()
split_at_space(s, space_idx) ==
  IF space_idx = 0 THEN NoFields
  ELSE split_chapter_verse(Strip(SubSeq(s, 1, space_idx - 1)),
                           Strip(SubSeq(s, space_idx + 1, Len(s))))

\* space_idx = s.rindex(" ")
split_stripped(s) ==
  IF s = <<>> THEN NoFields ELSE split_at_space(s, RIndex(s, " "))

\* the opening of the three reference parsers, the same statements in each:
\* trim, split at the rightmost space, require ':' and split at it
split_reference(ref) == split_stripped(Strip(ref))

\* chapter = int(chap_str), then the verse part
search_parse_fields(f, chapter) ==
  IF ~f.ok THEN NoReference
  ELSE IF ~chapter.ok THEN NoReference
  ELSE parse_verse_part(f.book_str, chapter.val, f.verse_part)

\* search._parse_reference
search_parse_reference(ref) ==
  search_parse_fields(split_reference(ref),
                      PyInt(split_reference(ref).chap_str))

\* chapter = int(chap_str.strip()), then the verse part
parallel_parse_fields(f, chapter) ==
  IF ~f.ok THEN NoReference
  ELSE IF ~chapter.ok THEN NoReference
  ELSE parse_verse_part(f.book_str, chapter.val, f.verse_part)

\* parallel._parse_reference_range
parallel_parse_reference_range(ref) ==
  parallel_parse_fields(split_reference(ref),
                        PyInt(Strip(split_reference(ref).chap_str)))

\* chapter = int(chap_str.strip()); verse = int(verse_str.strip())
context_parse_fields(f, chapter, verse) ==
  IF ~f.ok THEN NoReference
  ELSE IF ~(chapter.ok /\ verse.ok) THEN NoReference
  ELSE Reference(f.book_str, chapter.val, verse.val, verse.val)

\* context._parse_reference: one verse only, returned here as the
\* reference with v_start = v_end = verse
context_parse_reference(ref) ==
  context_parse_fields(split_reference(ref),
                       PyInt(Strip(split_reference(ref).chap_str)),
                       PyInt(Strip(split_reference(ref).verse_part)))

----------------------------------------------------------------------------
(* Data the runs are drawn from: a canon, import sheets, references.       *)

S_GEN == <<"G","E","N">>
S_Genesis == <<"G","e","n","e","s","i","s">>
S_1SA == <<"1","S","A">>
S_1Samuel == <<"1"," ","S","a","m","u","e","l">>
S_SNG == <<"S","N","G">>
S_SongOfSolomon == <<"S","o","n","g"," ","o","f"," ","S","o","l","o","m","o","n">>
S_JHN == <<"J","H","N">>
S_John == <<"J","o","h","n">>
S_Nehmiah == <<"N","e","h","m","i","a","h">>

\* four of the 66 entries of data/canon.json, in canon order
StandardCanon ==
  << [book_num |-> 1,  code |-> S_GEN, name |-> S_Genesis,       testament |-> "OT"],
     [book_num |-> 9,  code |-> S_1SA, name |-> S_1Samuel,       testament |-> "OT"],
     [book_num |-> 22, code |-> S_SNG, name |-> S_SongOfSolomon, testament |-> "OT"],
     [book_num |-> 43, code |-> S_JHN, name |-> S_John,          testament |-> "NT"] >>

S_KJV == <<"K","J","V">>
S_kjv == <<"k","j","v">>
S_BSB == <<"B","S","B">>

MissingPlaceholder == <<"(","m","i","s","s","i","n","g"," ","i","n"," ","t","h","i","s"," ","t","r","a","n","s","l","a","t","i","o","n",")">>

ExcelVerseRow(b, c, v, t) == [book |-> b, chapter |-> c, verse |-> v, text |-> t]

\* sheets as iter_verses_from_excel yields them
BibleSheet ==
  << ExcelVerseRow(S_Genesis, 1, 0, <<"t","i","t","l","e">>),
     ExcelVerseRow(S_Genesis, 1, 1, <<"I","n"," ","t","h","e"," ","b","e","g","i","n","n","i","n","g">>),
     ExcelVerseRow(S_Genesis, 1, 2, <<"v","o","i","d">>),
     ExcelVerseRow(S_Genesis, 1, 3, <<"l","i","g","h","t">>),
     ExcelVerseRow(S_Genesis, 1, 4, <<"g","o","o","d">>),
     ExcelVerseRow(S_John, 3, 16, <<"F","o","r"," ","G","o","d"," ","s","o"," ","l","o","v","e","d">>),
     ExcelVerseRow(S_John, 3, 17, <<"n","o","t"," ","t","o"," ","c","o","n","d","e","m","n">>),
     ExcelVerseRow(S_John, 3, 18, <<"b","e","l","i","e","v","e","t","h">>) >>

JohnAltSheet ==
  << ExcelVerseRow(<<"j","h","n">>, 3, 16, <<"s","o"," ","l","o","v","e","d">>),
     ExcelVerseRow(S_Nehmiah, 1, 1, <<"w","o","r","d","s">>) >>

\* a sheet that names John 3:16 twice, by name and by code
RepeatSheet ==
  << ExcelVerseRow(S_John, 3, 16, <<"F","o","r"," ","G","o","d">>),
     ExcelVerseRow(S_JHN, 3, 16, <<"s","o"," ","l","o","v","e","d">>) >>

Sheets == {BibleSheet, JohnAltSheet, RepeatSheet}

ImportCodes == {S_kjv, S_BSB}

----------------------------------------------------------------------------
(* The verses_normalized table and the SELECT statements over it.          *)

\* logical key of a verse row
VerseKey(r) == <<r.translation_code, r.book_num, r.chapter, r.verse>>

\* an INSERT of the rows of new (a sequence) into base breaks the key
ViolatesVerseKey(base, new) ==
  \/ \E i \in 1..Len(new) : \E r \in base : VerseKey(r) = VerseKey(new[i])
  \/ \E i, j \in 1..Len(new) : i # j /\ VerseKey(new[i]) = VerseKey(new[j])

\* SELECT translation_code, book_num, book_code, chapter, verse, text
VerseRow(r) ==
  [translation_code |-> r.translation_code, book_num |-> r.book_num,
   book_code |-> r.book_code, chapter |-> r.chapter, verse |-> r.verse,
   text |-> r.text]

\* SELECT translation_code, book_code, chapter, verse, text
ParallelSelectRow(r) ==
  [translation_code |-> r.translation_code, book_code |-> r.book_code,
   chapter |-> r.chapter, verse |-> r.verse, text |-> r.text]

\* mutant: the upper end of the range is excluded
Between_exclusive(v, lo, hi) == lo <= v /\ v < hi

\* verse BETWEEN lo AND hi
Between(v, lo, hi) == lo <= v /\ v <= hi

\* WHERE translation_code = ? AND book_num = ? AND chapter = ?
\*   AND verse BETWEEN ? AND ? ORDER BY verse
select_passage(tc, num, chapter, lo, hi) ==
  OrderByVerse({VerseRow(r) : r \in
    {q \in verses : /\ q.translation_code = tc
                    /\ q.book_num = num
                    /\ q.chapter = chapter
                    /\ Between(q.verse, lo, hi)}})

\* WHERE translation_code IN (...) AND book_num = ? AND chapter = ?
\*   AND verse BETWEEN ? AND ? ORDER BY verse, translation_code
select_parallel(tcs, num, chapter, lo, hi) ==
  OrderByVerseTranslation({ParallelSelectRow(r) : r \in
    {q \in verses : /\ \E i \in 1..Len(tcs) : q.translation_code = tcs[i]
                    /\ q.book_num = num
                    /\ q.chapter = chapter
                    /\ Between(q.verse, lo, hi)}})

\* text LIKE pattern: '%' matches any run of characters, '_' any one
\* character, and letters match without regard to ASCII case
RECURSIVE LikeMatch(_, _)
LikeMatch(pattern, text) ==
  IF pattern = <<>> THEN text = <<>>
  ELSE IF Head(pattern) = "%"
    THEN \/ LikeMatch(Tail(pattern), text)
         \/ text # <<>> /\ LikeMatch(pattern, Tail(text))
  ELSE /\ text # <<>>
       /\ \/ Head(pattern) = "_"
          \/ LowerChar(Head(pattern)) = LowerChar(Head(text))
       /\ LikeMatch(Tail(pattern), Tail(text))

\* f"%{query}%"
like_pattern(query) == <<"%">> \o query \o <<"%">>

\* ORDER BY translation_code, book_num, chapter, verse
BySearchOrder(r1, r2) ==
  \/ StrLess(r1.translation_code, r2.translation_code)
  \/ /\ r1.translation_code = r2.translation_code
     /\ \/ r1.book_num < r2.book_num
        \/ /\ r1.book_num = r2.book_num
           /\ \/ r1.chapter < r2.chapter
              \/ r1.chapter = r2.chapter /\ r1.verse < r2.verse

RECURSIVE OrderBySearch(_)
OrderBySearch(S) ==
  IF S = {} THEN <<>>
  ELSE LET first == CHOOSE r \in S : \A q \in S \ {r} : ~BySearchOrder(q, r)
       IN  <<first>> \o OrderBySearch(S \ {first})

\* LIMIT n: the first n rows; a negative n does not limit
Limit(rows, n) ==
  IF n < 0 \/ n >= Len(rows) THEN rows ELSE SubSeq(rows, 1, n)

\* [WHERE translation_code = ? AND] text LIKE ?
\*   ORDER BY translation_code, book_num, chapter, verse LIMIT ?
select_search(tc, pattern, limit) ==
  Limit(OrderBySearch({VerseRow(r) : r \in
          {q \in verses : /\ tc = <<>> \/ q.translation_code = Upper(tc)
                          /\ LikeMatch(pattern, q.text)}}),
        limit)

----------------------------------------------------------------------------
(* Outcome of one facade call.                                             *)

NoOutcome ==
  [raised |-> FALSE, warned |-> FALSE, parsed |-> NoReference, num |-> 0,
   windowed |-> FALSE, lo |-> 0, hi |-> 0, queried |-> FALSE,
   fetched |-> <<>>, rows |-> <<>>, printed |-> <<>>,
   connects |-> 0, opened |-> 0, closed |-> 0]

\* get_conn(readonly=True) around one statement: sqlite3.connect is called
\* once; with mode=ro it fails when the database file does not exist, and
\* then no connection was opened; otherwise the connection is closed by the
\* finally clause however the body ends
connect_failed(o) == [o EXCEPT !.connects = o.connects + 1]

session(o) ==
  [o EXCEPT !.connects = o.connects + 1, !.opened = o.opened + 1,
            !.closed = o.closed + 1]

\* mutant: a failure of the store is not caught
run_select_uncaught(o, chapter, lo, hi, result) ==
  IF ~dbFile \/ ~dbReady
    THEN [session(o) EXCEPT !.raised = TRUE]
  ELSE [session(o) EXCEPT !.queried = TRUE, !.fetched = result,
                          !.rows = result]

\* execution of a SELECT inside "with get_conn(readonly=True)": a
\* sqlite3.Error (no database file: the connection fails; no table: the
\* query fails) is caught, warned about and turned into []; a bound integer
\* outside the signed 64-bit range raises OverflowError, which is not a
\* sqlite3.Error and leaves the facade
run_select(o, chapter, lo, hi, result) ==
  IF ~dbFile
    THEN [connect_failed(o) EXCEPT !.warned = TRUE]
  ELSE IF ~dbReady
    THEN [session(o) EXCEPT !.warned = TRUE]
  ELSE IF ~(FitsSqliteInteger(chapter) /\ FitsSqliteInteger(lo)
              /\ FitsSqliteInteger(hi))
    THEN [session(o) EXCEPT !.raised = TRUE]
  ELSE [session(o) EXCEPT !.queried = TRUE, !.fetched = result,
                          !.rows = result]

\* warn(...); return []
Warned(o) == [o EXCEPT !.warned = TRUE]

Parsed(parsed) == [NoOutcome EXCEPT !.parsed = parsed]

\* the query of get_passage and of get_verse_window for verses lo..hi of
\* the resolved book
fetch_window(tc, parsed, num, lo, hi) ==
  IF num = 0 THEN Warned(Parsed(parsed))
  ELSE run_select([Parsed(parsed) EXCEPT !.num = num, !.windowed = TRUE,
                                         !.lo = lo, !.hi = hi],
                  parsed.chapter, lo, hi,
                  select_passage(tc, num, parsed.chapter, lo, hi))

\* get_passage after upper() and _parse_reference
passage_of(tc, parsed, c) ==
  IF ~parsed.ok THEN Warned(Parsed(parsed))
  ELSE IF c = <<>> THEN Warned(Parsed(parsed))
  ELSE fetch_window(tc, parsed,
                    resolve_book_num(parsed.book, build_book_lookup(c)),
                    parsed.v_start, parsed.v_end)

\* mutant: the translation code is used as given
get_passage_code_as_given(ref, translation_code) ==
  passage_of(translation_code, search_parse_reference(ref),
             load_canon(canon))

\* search.get_passage
get_passage(ref, translation_code) ==
  passage_of(Upper(translation_code), search_parse_reference(ref),
             load_canon(canon))

\* search.search_verses: an empty stripped query is answered without a
\* connection; translation_code None or '' (here <<>>) searches every
\* translation
search_stripped(query, limit, translation_code) ==
  IF query = <<>> THEN Warned(NoOutcome)
  ELSE run_select(NoOutcome, 0, limit, 0,
                  select_search(translation_code, like_pattern(query), limit))

search_verses(query, limit, translation_code) ==
  search_stripped(Strip(query), limit, translation_code)

\* mutant: the window start is not clamped
window_start_unclamped(center_verse, before) == PyAdd(center_verse, -before)

\* v_start = max(1, center_verse - before)
window_start(center_verse, before) == PyMax(1, PyAdd(center_verse, -before))

\* v_end = center_verse + after
window_end(center_verse, after) == PyAdd(center_verse, after)

\* get_verse_window after upper() and _parse_reference; the parsed verse
\* is the center verse
window_of(tc, parsed, c, before, after) ==
  IF ~parsed.ok THEN Warned(Parsed(parsed))
  ELSE IF c = <<>> THEN Warned(Parsed(parsed))
  ELSE fetch_window(tc, parsed,
                    resolve_book_num(parsed.book, build_book_lookup(c)),
                    window_start(parsed.v_start, before),
                    window_end(parsed.v_start, after))

\* context.get_verse_window
get_verse_window(ref, translation_code, before, after) ==
  window_of(Upper(translation_code), context_parse_reference(ref),
            load_canon(canon), before, after)

\* mutant: rows are grouped without regard to their verse number
verse_texts_any_verse(fetched, chapter, verse) ==
  LET at == {i \in 1..Len(fetched) : fetched[i].chap = chapter}
      tc == {fetched[i].translation_code : i \in at}
  IN  [t \in tc |->
         fetched[SetMax({i \in at : fetched[i].translation_code = t})].text]

\* verse_map.get(verse, {}): translation code -> text, a later fetched row
\* overwriting an earlier one for the same code
verse_texts(fetched, chapter, verse) ==
  LET at == {i \in 1..Len(fetched) :
               fetched[i].chap = chapter /\ fetched[i].verse = verse}
      tc == {fetched[i].translation_code : i \in at}
  IN  [t \in tc |->
         fetched[SetMax({i \in at : fetched[i].translation_code = t})].text]

\* the rows as the regrouping loop unpacks them
UnpackedRows(rows) ==
  [i \in 1..Len(rows) |->
     [translation_code |-> rows[i].translation_code,
      chap |-> rows[i].chapter, verse |-> rows[i].verse,
      text |-> rows[i].text]]

\* for verse in range(v_start, v_end + 1): one ParallelRow per verse number
parallel_rows(book_code, chapter, v_start, v_end, rows) ==
  [k \in 1..(IF v_end >= v_start THEN v_end - v_start + 1 ELSE 0) |->
     [book_code |-> book_code, chapter |-> chapter,
      verse |-> v_start + k - 1,
      texts |-> verse_texts(UnpackedRows(rows), chapter, v_start + k - 1)]]

\* the rows of the query regrouped into one record per verse; no rows
\* gives a warning and []
regroup(book_code, parsed, q) ==
  IF q.raised \/ ~q.queried THEN q
  ELSE IF q.fetched = <<>> THEN Warned(q)
  ELSE [q EXCEPT !.rows = parallel_rows(book_code, parsed.chapter,
                                        parsed.v_start, parsed.v_end,
                                        q.fetched)]

\* the one query of get_parallel_verses over all requested codes
fetch_parallel(tcs, parsed, c, num) ==
  IF num = 0 THEN Warned(Parsed(parsed))
  ELSE regroup(CanonCode(c, num), parsed,
               run_select([Parsed(parsed) EXCEPT !.num = num,
                                                 !.windowed = TRUE,
                                                 !.lo = parsed.v_start,
                                                 !.hi = parsed.v_end],
                          parsed.chapter, parsed.v_start, parsed.v_end,
                          select_parallel(tcs, num, parsed.chapter,
                                          parsed.v_start, parsed.v_end)))

\* get_parallel_verses after upper(): no codes, then _parse_reference_range
parallel_of(tcs, parsed, c) ==
  IF tcs = <<>> THEN Warned(NoOutcome)
  ELSE IF ~parsed.ok THEN Warned(Parsed(parsed))
  ELSE IF c = <<>> THEN Warned(Parsed(parsed))
  ELSE fetch_parallel(tcs, parsed, c,
                      resolve_book_num(parsed.book, build_book_lookup(c)))

\* [c.upper() for c in translation_codes]
UpperAll(codes) == [i \in 1..Len(codes) |-> Upper(codes[i])]

\* parallel.get_parallel_verses
get_parallel_verses(ref, translation_codes) ==
  parallel_of(UpperAll(translation_codes),
              parallel_parse_reference_range(ref), load_canon(canon))

\* the header's book name: the name of the first canon entry with the
\* rows' book code, else the code itself
header_book_name(c, book_code) ==
  IF \E i \in 1..Len(c) : c[i].code = book_code
    THEN c[SetMin({i \in 1..Len(c) : c[i].code = book_code})].name
    ELSE book_code

\* one block per record: a header line, then one line per requested code
printed_blocks(tcs, book_name, rows, missing) ==
  [k \in 1..Len(rows) |->
     [header |-> book_name \o <<" ">> \o IntToStr(rows[k].chapter)
                   \o <<":">> \o IntToStr(rows[k].verse),
      lines  |-> [i \in 1..Len(tcs) |->
                    [code |-> tcs[i],
                     text |-> IF tcs[i] \in DOMAIN rows[k].texts
                                THEN rows[k].texts[tcs[i]]
                                ELSE missing]]]]

\* mutant: an absent code prints an empty text
print_parallel_blank(translation_codes, rows) ==
  printed_blocks(UpperAll(translation_codes),
                 header_book_name(load_canon(canon), rows[1].book_code),
                 rows, <<>>)

\* parallel.print_parallel: texts.get(code, "(missing in this
\* translation)") for every requested code of every record
print_parallel(translation_codes, rows) ==
  printed_blocks(UpperAll(translation_codes),
                 header_book_name(load_canon(canon), rows[1].book_code),
                 rows, MissingPlaceholder)

----------------------------------------------------------------------------
(* References and call arguments.                                          *)

MaxInt == 1

MaxNeg == 1

MaxWindow == 2

MaxNegWindow == 1

\* integers written into generated references
RefInts == -MaxNeg..MaxInt

\* the default of --before and --after
DefaultWindow == 2

\* before / after arguments
WindowArgs == {-MaxNegWindow, 0, DefaultWindow, MaxWindow}

S_genesis == Lower(S_Genesis)

S_Joh == <<"J","o","h">>

BookTokens == {S_Genesis, S_1Samuel, S_SongOfSolomon}

\* f"{B} {C}:{V}"
SingleRef(B, C, V) ==
  B \o <<" ">> \o IntToStr(C) \o <<":">> \o IntToStr(V)

\* f"{B} {C}:{S}-{E}"
RangeRef(B, C, S, E) ==
  B \o <<" ">> \o IntToStr(C) \o <<":">> \o IntToStr(S) \o <<"-">>
    \o IntToStr(E)

GeneratedSingleRefs ==
  {SingleRef(B, C, V) : B \in BookTokens, C \in RefInts, V \in RefInts}

GeneratedRangeRefs ==
  {RangeRef(S_Genesis, C, S, E) : C \in RefInts, S \in RefInts, E \in RefInts}

R_John_3_16 == <<"J","o","h","n"," ","3",":","1","6">>

R_John_3_16_18 == <<"J","o","h","n"," ","3",":","1","6","-","1","8">>

R_John_3_16_16 == <<"J","o","h","n"," ","3",":","1","6","-","1","6">>

R_John_3_18_16 == <<"J","o","h","n"," ","3",":","1","8","-","1","6">>

R_john_3_16 == <<"j","o","h","n"," ","3",":","1","6">>

R_JHN_3_17 == <<"J","H","N"," ","3",":","1","7">>

R_JoHn_3_16 == <<"J","o","H","n"," ","3",":","1","6">>

R_John_3_17_17 == <<"J","o","h","n"," ","3",":","1","7","-","1","7">>

R_Nehmiah_1_1 == <<"N","e","h","m","i","a","h"," ","1",":","1">>

R_Genesis_1_1 == <<"G","e","n","e","s","i","s"," ","1",":","1">>

R_genesis_1_1 == <<"g","e","n","e","s","i","s"," ","1",":","1">>

R_Genesis_1_1_3 == <<"G","e","n","e","s","i","s"," ","1",":","1","-","3">>

R_Genesis_999_999 == <<"G","e","n","e","s","i","s"," ","9","9","9",":","9","9","9">>

R_Empty == <<>>

R_Blank == <<" "," ">>

R_NoSpace == <<"G","e","n","e","s","i","s","1",":","1">>

R_NoColon == <<"G","e","n","e","s","i","s"," ","1"," ","1">>

R_BadChapter == <<"G","e","n","e","s","i","s"," ","x",":","1">>

R_BadVerse == <<"G","e","n","e","s","i","s"," ","1",":","x">>

R_BadRangeEnd == <<"G","e","n","e","s","i","s"," ","1",":","1","-","x">>

R_BadRangeStart == <<"G","e","n","e","s","i","s"," ","1",":","x","-","2">>

R_OpenRange == <<"G","e","n","e","s","i","s"," ","1",":","1","-">>

R_EmptyChapter == <<"G","e","n","e","s","i","s"," ",":","1">>

R_EmptyVerse == <<"G","e","n","e","s","i","s"," ","1",":">>

R_Underscore == <<"J","o","h","n"," ","3",":","1","_","6">>

R_PlusSign == <<"G","e","n","e","s","i","s"," ","1",":","+","1">>

R_HugeChapter == <<"G","e","n","e","s","i","s"," ","9","9","9","9","9","9","9","9","9","9","9","9","9","9","9","9","9","9","9","9",":","1">>

R_HugeVerse == <<"G","e","n","e","s","i","s"," ","1",":","9","9","9","9","9","9","9","9","9","9","9","9","9","9","9","9","9","9","9","9">>

R_HugeStartRange == <<"J","o","h","n"," ","3",":","9","9","9","9","9","9","9","9","9","9","9","9","9","9","9","9","9","9","9","9","-","1","6">>

R_NegativeStartRange == <<"G","e","n","e","s","i","s"," ","1",":","-","1","-","-","2">>

R_Padded == <<" "," ","G","e","n","e","s","i","s"," "," ","1",":","1"," ">>

R_Tab == <<"G","e","n","e","s","i","s","\t","1",":","1">>

R_Prefix == <<"J","o","h"," ","3",":","1","6">>

SampleRefs ==
  {R_John_3_16, R_John_3_16_18, R_John_3_16_16, R_John_3_18_16,
   R_john_3_16, R_JHN_3_17, R_JoHn_3_16, R_John_3_17_17,
   R_Nehmiah_1_1, R_Genesis_1_1, R_genesis_1_1, R_Genesis_1_1_3,
   R_Genesis_999_999, R_Empty, R_Blank, R_NoSpace,
   R_NoColon, R_BadChapter, R_BadVerse, R_BadRangeEnd,
   R_BadRangeStart, R_OpenRange, R_EmptyChapter, R_EmptyVerse,
   R_Underscore, R_PlusSign, R_HugeChapter, R_HugeVerse,
   R_Padded, R_Tab, R_Prefix, R_HugeStartRange, R_NegativeStartRange}

\* references given to the range-accepting commands
Refs == GeneratedSingleRefs \cup GeneratedRangeRefs \cup SampleRefs

\* references given to the context command
ContextRefs == GeneratedSingleRefs \cup SampleRefs

Q_loved == <<"l","o","v","e","d">>

Q_GOD == <<" ","G","O","D"," ">>

Q_o == <<"o">>

Q_l_ved == <<"l","_","v","e","d">>

Q_Blank == <<" "," ">>

Q_zzz == <<"z","z","z">>

\* search texts
SearchQueries == {Q_loved, Q_GOD, Q_o, Q_l_ved, Q_Blank, Q_zzz}

\* the default of --limit
DefaultLimit == 20

\* --limit values: one row, the default, no limit, and an integer SQLite
\* cannot bind
SearchLimits == {1, DefaultLimit, -1, BeyondInt64}

\* --code values of the search command; <<>> stands for no filter
SearchCodes == {<<>>, S_kjv}

QueryCodes == {S_kjv, S_BSB}

ContextCodes == {S_kjv}

CodeLists == {<<S_KJV>>, <<S_KJV, S_BSB>>, <<S_BSB, S_kjv>>}

----------------------------------------------------------------------------
(* State machine: one CLI command (or library call) per step, then the     *)
(* process ends.                                                           *)

Call(op, ref, codes, before, after, out) ==
  [op |-> op, ref |-> ref, codes |-> codes, before |-> before,
   after |-> after, out |-> out, sheet |-> <<>>, overwrite |-> FALSE,
   dry_run |-> FALSE]

\* a call of import_bible_from_excel with the rows of its sheet and its
\* overwrite and dry_run flags
ImportCall(sheet, code, overwrite, dry_run, out) ==
  [Call("import", <<>>, <<code>>, 0, 0, out)
     EXCEPT !.sheet = sheet, !.overwrite = overwrite, !.dry_run = dry_run]

Idle == Call("idle", <<>>, <<>>, 0, 0, NoOutcome)

Init ==
  /\ canon \in {<<>>, StandardCanon}
  /\ dbFile \in BOOLEAN
  /\ dbReady = FALSE
  /\ verses = {}
  /\ translations = {}
  /\ OtherTablesEmpty
  /\ last = Idle

\* meta.get("name", book_code) with meta = canon.get(book_num, {})
result_book_name(c, row) ==
  IF \E i \in 1..Len(c) : c[i].book_num = row.book_num
    THEN c[SetMax({i \in 1..Len(c) : c[i].book_num = row.book_num})].name
    ELSE row.book_code

\* mutant: verse and chapter change places in the printed reference
result_reference_verse_first(book, row) ==
  book \o <<" ">> \o IntToStr(row.verse) \o <<":">> \o IntToStr(row.chapter)

\* f"{book_name} {chapter}:{verse}"
result_reference(book, row) ==
  book \o <<" ">> \o IntToStr(row.chapter) \o <<":">> \o IntToStr(row.verse)

\* print(f"[{code}] {book_name} {chapter}:{verse}"); print(f"    {text}")
result_block(book, row) ==
  [header |-> <<"[">> \o row.translation_code \o <<"]", " ">>
                \o result_reference(book, row),
   text |-> row.text]

\* search.print_search_results: one block per row, with the canon's book
\* name, or the row's book code when the canon is missing
print_search_results(rows, c) ==
  [i \in 1..Len(rows) |->
     result_block(IF c = <<>> THEN rows[i].book_code
                  ELSE result_book_name(c, rows[i]),
                  rows[i])]

\* print_search_results(rows) on what the facade returned
results_print(out) ==
  IF out.raised \/ out.rows = <<>> THEN out
  ELSE [out EXCEPT !.printed = print_search_results(out.rows,
                                                    load_canon(canon))]

\* mutant: the connection is opened read-write whatever the flag says
connect_file_created(readonly, connects) ==
  IF connects > 0 THEN TRUE ELSE dbFile

\* the database file after the sqlite3.connect calls of get_conn: a
\* read-write connect creates a missing file, a mode=ro connect does not
connect_file(readonly, connects) ==
  IF connects > 0 /\ ~readonly THEN TRUE ELSE dbFile

\* what a query command leaves behind: its statements are SELECTs on a
\* get_conn(readonly=True) connection
QueryFrame ==
  /\ dbFile' = connect_file(TRUE, last'.out.connects)
  /\ UNCHANGED <<otherTables, canon, dbReady, verses, translations>>

\* cmd_init_schema: executescript(verse_schema.sql); commit
InitSchema ==
  /\ last.op = "idle"
  /\ last' = Call("init_schema", <<>>, <<>>, 0, 0, session(NoOutcome))
  /\ dbFile' = connect_file(FALSE, last'.out.connects)
  /\ dbReady' = TRUE
  /\ UNCHANGED <<otherTables, canon, verses, translations>>

\* len(text.split())
WordCount(text) ==
  Cardinality({i \in 1..Len(text) :
                 ~IsSpace(text[i]) /\ (i = 1 \/ IsSpace(text[i - 1]))})

\* VerseRef.to_normalized
to_normalized(book_code, chapter, verse) ==
  Upper(book_code) \o <<".">> \o IntToStr(chapter) \o <<".">>
    \o IntToStr(verse)

\* one db_rows tuple, or nothing for a row whose book does not resolve
db_row(r, translation_code, c, book_num, text) ==
  IF book_num = 0 THEN <<>>
  ELSE << [translation_code |-> translation_code,
           book_num |-> book_num,
           book_code |-> CanonCode(c, book_num),
           chapter |-> r.chapter,
           verse |-> r.verse,
           normalized_ref |->
             to_normalized(CanonCode(c, book_num), r.chapter, r.verse),
           text |-> text,
           word_count |-> WordCount(text)] >>

\* the db_rows list import_bible_from_excel prepares from the sheet rows
RECURSIVE prepare_db_rows(_, _, _)
prepare_db_rows(rows, translation_code, c) ==
  IF rows = <<>> THEN <<>>
  ELSE db_row(Head(rows), translation_code, c,
              loader_resolve_book(Head(rows).book, build_book_lookup(c)),
              Strip(Head(rows).text))
         \o prepare_db_rows(Tail(rows), translation_code, c)

\* register_translation: INSERT ... ON CONFLICT(code) DO UPDATE
register_translation(table, code) ==
  {t \in table : t.code # Upper(code)}
    \cup {[code |-> Upper(code), name |-> Upper(code), language |-> "en"]}

\* the connections import_bible_from_excel goes through, one after the
\* other, each inside "with get_conn()": ensure_verse_schema,
\* ensure_translations_schema, the write phase, and register_translation's
\* ensure_translations_schema and INSERT
import_sessions(written, failed) ==
  2 + (IF written THEN 1 ELSE 0) + (IF written /\ ~failed THEN 2 ELSE 0)

\* n connections opened and closed in turn
sessions(o, n) == [o EXCEPT !.connects = n, !.opened = n, !.closed = n]

\* the verse_id column after the import's DELETE and INSERT: the rows
\* that stay keep theirs, the INSERT names no verse_id and leaves it NULL
inserted_verse_ids(ids, base, rows) ==
  [r \in rows |-> IF r \in base /\ r \in DOMAIN ids THEN ids[r] ELSE 0]

\* mutant: the DELETE is committed on its own, before executemany
with_get_conn_delete_committed(table, base, db_rows, failed) ==
  IF failed THEN base
  ELSE base \cup {db_rows[i] : i \in 1..Len(db_rows)}

\* the verse table after "with get_conn() as conn": DELETE, executemany
\* and conn.commit() are one transaction; when executemany raises, the
\* block is left before the commit and conn.close() discards it all
with_get_conn(table, base, db_rows, failed) ==
  IF failed THEN table
  ELSE base \cup {db_rows[i] : i \in 1..Len(db_rows)}

\* the write phase of import_bible_from_excel: DELETE (when overwrite),
\* executemany INSERT, commit, register_translation; an IntegrityError
\* leaves the transaction uncommitted
import_write(translation_code, code, db_rows, base, written, overwrite, dry_run, sheet) ==
  LET failed == written /\ ViolatesVerseKey(base, db_rows)
  IN  /\ verses' = IF written
                     THEN with_get_conn(verses, base, db_rows, failed)
                     ELSE verses
      /\ translations' = IF written /\ ~failed
                           THEN register_translation(translations, translation_code)
                           ELSE translations
      /\ verse_id' = IF written /\ ~failed
                       THEN inserted_verse_ids(verse_id, base, verses')
                       ELSE verse_id
      /\ last' = ImportCall(sheet, code, overwrite, dry_run,
                      [sessions(NoOutcome, import_sessions(written, failed))
                         EXCEPT !.raised = failed,
                                !.warned = (canon = <<>>)])

\* loader.import_bible_from_excel
ImportBible(sheet, code, overwrite, dry_run) ==
  LET translation_code == Upper(code)
      c       == load_canon(canon)
      db_rows == IF c = <<>> THEN <<>>
                 ELSE prepare_db_rows(sheet, translation_code, c)
      base    == IF overwrite
                   THEN {r \in verses : r.translation_code # translation_code}
                   ELSE verses
  IN  /\ last.op = "idle"
      /\ import_write(translation_code, code, db_rows, base,
                      c # <<>> /\ ~dry_run /\ db_rows # <<>>,
                      overwrite, dry_run, sheet)
      /\ dbFile' = connect_file(FALSE, last'.out.connects)
      /\ dbReady' = TRUE
      /\ UNCHANGED <<policyTables, coreTables, canonical, verseIdColumn, canon>>

\* cmd_passage
GetPassage(ref, code) ==
  /\ last.op = "idle"
  /\ last' = Call("passage", ref, <<code>>, 0, 0,
                  results_print(get_passage(ref, code)))
  /\ QueryFrame

\* cmd_search
SearchVerses(query, limit, code) ==
  /\ last.op = "idle"
  /\ last' = Call("search", query, IF code = <<>> THEN <<>> ELSE <<code>>,
                  limit, 0, results_print(search_verses(query, limit, code)))
  /\ QueryFrame

\* cmd_context
GetVerseWindow(ref, code, before, after) ==
  /\ last.op = "idle"
  /\ last' = Call("context", ref, <<code>>, before, after,
                  results_print(get_verse_window(ref, code, before, after)))
  /\ QueryFrame

\* get_parallel_verses called with the codes as given
GetParallelVerses(ref, codes) ==
  /\ last.op = "idle"
  /\ last' = Call("parallel", ref, codes, 0, 0,
                  get_parallel_verses(ref, codes))
  /\ QueryFrame

\* print_parallel(ref, codes, rows) on what get_parallel_verses returned
compare_print(codes, out) ==
  IF out.raised \/ out.rows = <<>> THEN out
  ELSE [out EXCEPT !.printed = print_parallel(codes, out.rows)]

\* cmd_compare: upper-case the codes, fetch, print
CmdCompare(ref, codes) ==
  /\ last.op = "idle"
  /\ last' = Call("compare", ref, codes, 0, 0,
                  compare_print(UpperAll(codes),
                                get_parallel_verses(ref, UpperAll(codes))))
  /\ QueryFrame

\* main() returns and the process ends
Exit ==
  /\ last.op # "idle"
  /\ last' = Idle
  /\ UNCHANGED <<otherTables, canon, dbFile, dbReady, verses, translations>>

Next ==
  \/ InitSchema
  \/ \E sheet \in Sheets, code \in ImportCodes, overwrite \in BOOLEAN,
        dry_run \in BOOLEAN : ImportBible(sheet, code, overwrite, dry_run)
  \/ \E ref \in Refs, code \in QueryCodes : GetPassage(ref, code)
  \/ \E query \in SearchQueries, limit \in SearchLimits,
        code \in SearchCodes : SearchVerses(query, limit, code)
  \/ \E ref \in ContextRefs, code \in ContextCodes, before \in WindowArgs,
        after \in WindowArgs : GetVerseWindow(ref, code, before, after)
  \/ \E ref \in Refs, codes \in CodeLists \cup {<<>>} :
        GetParallelVerses(ref, codes)
  \/ \E ref \in Refs, codes \in CodeLists : CmdCompare(ref, codes)
  \/ Exit

Spec == Init /\ [][Next]_vars

----------------------------------------------------------------------------
(* Book resolution on its own, over a family of canons.                    *)

\* two books whose names differ only in case
CaseCollidingCanon ==
  << [book_num |-> 43, code |-> S_JHN, name |-> S_John, testament |-> "NT"],
     [book_num |-> 62, code |-> <<"1","J","N">>, name |-> <<"J","O","H","N">>, testament |-> "NT"] >>

\* a later book whose code lower-cases to an earlier book's code
ShadowingCanon ==
  << [book_num |-> 2, code |-> <<"g","e","n">>, name |-> <<"S","e","c","o","n","d">>, testament |-> "OT"],
     [book_num |-> 1, code |-> S_GEN, name |-> S_Genesis, testament |-> "OT"] >>

TwoBookCanon ==
  << [book_num |-> 43, code |-> S_JHN, name |-> S_John, testament |-> "NT"],
     [book_num |-> 1, code |-> S_GEN, name |-> S_Genesis, testament |-> "OT"] >>

CanonFamily == {StandardCanon, TwoBookCanon, CaseCollidingCanon, ShadowingCanon}

K_GEN == <<"G","E","N">>

K_gen == <<"g","e","n">>

K_Gen == <<"G","e","n">>

K_Genesis == <<"G","e","n","e","s","i","s">>

K_GENESIS == <<"G","E","N","E","S","I","S">>

K_gEnEsIs == <<"g","E","n","E","s","I","s">>

K_Genesi == <<"G","e","n","e","s","i">>

K_enesis == <<"e","n","e","s","i","s">>

K_John == <<"J","o","h","n">>

K_john == <<"j","o","h","n">>

K_JOHN == <<"J","O","H","N">>

K_JoHN == <<"J","o","H","N">>

K_Joh == <<"J","o","h">>

K_1_samuel == <<"1"," ","s","a","m","u","e","l">>

K_1Samuel == <<"1","S","a","m","u","e","l">>

K_Song == <<"S","o","n","g">>

K_SONG_OF_SOLOMON == <<"S","O","N","G"," ","O","F"," ","S","O","L","O","M","O","N">>

K_Nehmiah == <<"N","e","h","m","i","a","h">>

K_Second == <<"S","e","c","o","n","d">>

K_1JN == <<"1","J","N">>

ResolveTokens ==
  {K_GEN, K_gen, K_Gen, K_Genesis, K_GENESIS,
   K_gEnEsIs, K_Genesi, K_enesis, K_John, K_john,
   K_JOHN, K_JoHN, K_Joh, K_1_samuel, K_1Samuel,
   K_Song, K_SONG_OF_SOLOMON, K_Nehmiah, K_Second, K_1JN,
   S_1Samuel, S_SongOfSolomon, S_JHN}

InitResolver ==
  /\ canon \in CanonFamily
  /\ dbFile = FALSE
  /\ dbReady = FALSE
  /\ verses = {}
  /\ translations = {}
  /\ OtherTablesEmpty
  /\ last = Idle

\* the facades' resolution step on a parsed book token
ResolveBook(token) ==
  /\ last.op = "idle"
  /\ last' = Call("resolve", token, <<>>, 0, 0,
                  [NoOutcome EXCEPT !.num =
                     resolve_book_num(token,
                                      build_book_lookup(load_canon(canon)))])
  /\ UNCHANGED <<otherTables, canon, dbFile, dbReady, verses, translations>>

\* the import's resolution step on a sheet's book cell
LoaderResolveBook(token) ==
  /\ last.op = "idle"
  /\ last' = Call("loader_resolve", token, <<>>, 0, 0,
                  [NoOutcome EXCEPT !.num =
                     loader_resolve_book(token,
                                         build_book_lookup(load_canon(canon)))])
  /\ UNCHANGED <<otherTables, canon, dbFile, dbReady, verses, translations>>

NextResolver ==
  \/ \E token \in ResolveTokens : ResolveBook(token)
  \/ \E token \in ResolveTokens : LoaderResolveBook(token)
  \/ Exit

ResolverSpec == InitResolver /\ [][NextResolver]_vars

----------------------------------------------------------------------------
(* Properties.                                                             *)

FacadeOps == {"passage", "context", "parallel", "compare"}

\* the call reached its reference parser (get_parallel_verses returns
\* before parsing when it is given no translation code)
ParserRan == last.op \in FacadeOps /\ ~(last.op = "parallel" /\ last.codes = <<>>)

\* the book token of a parsed reference does not resolve against the canon
BookUnresolved ==
  /\ last.out.parsed.ok
  /\ canon # <<>>
  /\ resolve_book_num(last.out.parsed.book, build_book_lookup(canon)) = 0

\* C1: get_passage, get_verse_window and get_parallel_verses never raise to
\* their caller, and a reference that fails to parse or whose book token
\* does not resolve yields an empty result list together with a warning.
C1_FacadesNeverRaise ==
  last.op \in FacadeOps =>
    /\ ~last.out.raised
    /\ (~last.out.parsed.ok \/ BookUnresolved) =>
         (last.out.rows = <<>> /\ last.out.warned)

\* codes and names of different books are different strings
DistinctCodesAndNames(c) ==
  \A i, j \in 1..Len(c) :
    i # j => {c[i].code, c[i].name} \cap {c[j].code, c[j].name} = {}

\* codes and names of different books differ even when case is ignored
DistinctIgnoringCase(c) ==
  \A i, j \in 1..Len(c) :
    i # j => {Lower(c[i].code), Lower(c[i].name)}
               \cap {Lower(c[j].code), Lower(c[j].name)} = {}

ExactBooks(c, t) ==
  {c[i].book_num : i \in {k \in 1..Len(c) : t \in {c[k].code, c[k].name}}}

FoldedBooks(c, t) ==
  {c[i].book_num : i \in {k \in 1..Len(c) :
      Lower(t) \in {Lower(c[k].code), Lower(c[k].name)}}}

\* the books the contract names for token t: exact match first, then the
\* match after case folding
ContractBooks(c, t) ==
  IF ExactBooks(c, t) # {} THEN ExactBooks(c, t) ELSE FoldedBooks(c, t)

ResolutionMeetsContract ==
  /\ \A i \in 1..Len(canon) :
       (last.out.num = canon[i].book_num)
         <=> (canon[i].book_num \in ContractBooks(canon, last.ref))
  /\ (last.out.num = 0) <=> (ContractBooks(canon, last.ref) = {})

\* C2 (as stated): for every canon with distinct codes and names and every
\* non-empty token, resolution returns book n exactly when the token equals
\* the code or name of n or, failing an exact match, equals it after
\* lower-casing; every other token is not found.
C2_ResolutionDistinctCanon ==
  (last.op \in {"resolve", "loader_resolve"} /\ DistinctCodesAndNames(canon))
    => ResolutionMeetsContract

\* C2 (amended): the same, for every canon whose codes and names are
\* pairwise distinct across books when case is ignored.
C2_ResolutionCaseDistinctCanon ==
  (last.op \in {"resolve", "loader_resolve"} /\ DistinctIgnoringCase(canon))
    => ResolutionMeetsContract

C2_Witness ==
  /\ last.op = "resolve"
  /\ canon = StandardCanon
  /\ last.ref = K_gEnEsIs
  /\ last.out.num = 1

\* C3 (as stated): for every book token B and all integers C, V the string
\* 'B C:V' parses to book token B, chapter C and verse V.
C3_SplitAtRightmostSpace ==
  ParserRan =>
    \A B \in BookTokens, C \in RefInts, V \in RefInts :
      last.ref = SingleRef(B, C, V)
        => last.out.parsed = Reference(B, C, V, V)

\* C3 (amended): for every book token B, every integer C and every integer
\* V >= 0 the string 'B C:V' parses to book token B, chapter C and verse V.
C3_SplitAtRightmostSpaceNonNegative ==
  ParserRan =>
    \A B \in BookTokens, C \in RefInts, V \in RefInts :
      (V >= 0 /\ last.ref = SingleRef(B, C, V))
        => last.out.parsed = Reference(B, C, V, V)

C3_Witness ==
  /\ last.op = "passage"
  /\ last.ref = SingleRef(S_SongOfSolomon, -1, 1)
  /\ last.out.parsed = Reference(S_SongOfSolomon, -1, 1, 1)

RangeOps == {"passage", "parallel", "compare"}

\* C4 (as stated): for all integers C, S, E 'Book C:S-E' parses to chapter
\* C, verse_start S, verse_end E, and 'Book C:S' parses to chapter C with
\* verse_start = verse_end = S.
C4_RangeParse ==
  (ParserRan /\ last.op \in RangeOps) =>
    \A C \in RefInts, S \in RefInts :
      /\ last.ref = SingleRef(S_Genesis, C, S)
           => last.out.parsed = Reference(S_Genesis, C, S, S)
      /\ \A E \in RefInts :
           last.ref = RangeRef(S_Genesis, C, S, E)
             => last.out.parsed = Reference(S_Genesis, C, S, E)

\* C4 (amended): the same for all integers C, E and every integer S >= 0.
C4_RangeParseNonNegativeStart ==
  (ParserRan /\ last.op \in RangeOps) =>
    \A C \in RefInts, S \in RefInts :
      S >= 0 =>
        /\ last.ref = SingleRef(S_Genesis, C, S)
             => last.out.parsed = Reference(S_Genesis, C, S, S)
        /\ \A E \in RefInts :
             last.ref = RangeRef(S_Genesis, C, S, E)
               => last.out.parsed = Reference(S_Genesis, C, S, E)

C4_Witness ==
  /\ last.op = "parallel"
  /\ last.ref = R_John_3_16_18
  /\ last.out.parsed = Reference(S_John, 3, 16, 18)

\* the part of the trimmed input after its rightmost space
RefTail(ref) ==
  SubSeq(Strip(ref), RIndex(Strip(ref), " ") + 1, Len(Strip(ref)))

\* s is an integer numeral as Python reads one: optional surrounding
\* whitespace, an optional sign, then decimal digits, any two of which may
\* be separated by one underscore ('16', '-1', '+1', '1_6')
IsInteger(s) ==
  LET t == Strip(s)
      u == IF t # <<>> /\ t[1] \in {"+", "-"} THEN Tail(t) ELSE t
  IN  /\ u # <<>>
      /\ \A i \in 1..Len(u) :
           \/ u[i] \in {"0","1","2","3","4","5","6","7","8","9"}
           \/ /\ u[i] = "_"
              /\ i > 1
              /\ i < Len(u)
              /\ u[i - 1] # "_"
              /\ u[i + 1] # "_"

\* a chapter, verse or verse-range component that is not an integer
NonIntegerComponent(ref) ==
  LET chapter == SplitHead(RefTail(ref), ":")
      verse   == SplitTail(RefTail(ref), ":")
  IN  \/ ~IsInteger(chapter)
      \/ /\ ~IsInteger(verse)
         /\ ~(/\ Contains(verse, "-")
              /\ IsInteger(SplitHead(verse, "-"))
              /\ IsInteger(SplitTail(verse, "-")))

\* the inputs the parser contract calls malformed
MalformedReference(ref) ==
  \/ Strip(ref) = <<>>
  \/ ~Contains(Strip(ref), " ")
  \/ ~Contains(RefTail(ref), ":")
  \/ NonIntegerComponent(ref)

\* C5: an input that is empty or blank, has no space separator, has no
\* colon in its tail, or has a non-integer chapter, verse or verse-range
\* component fails to parse without an exception, and the facade returns
\* an empty list.
C5_MalformedYieldsEmpty ==
  (last.op \in FacadeOps /\ MalformedReference(last.ref)) =>
    /\ last.out.parsed = NoReference
    /\ ~last.out.raised
    /\ last.out.rows = <<>>

C5_Witness ==
  /\ last.op = "context"
  /\ last.ref = R_NoColon
  /\ dbReady
  /\ canon # <<>>
  /\ last.out.parsed = NoReference
  /\ last.out.warned
  /\ last.out.rows = <<>>

\* the facade of the last call applied to another reference, with the
\* last call's other arguments
SameFacade(ref) ==
  IF last.op = "passage" THEN get_passage(ref, last.codes[1])
  ELSE IF last.op = "context"
    THEN get_verse_window(ref, last.codes[1], last.before, last.after)
  ELSE get_parallel_verses(ref, last.codes)

\* C6: in every fetch facade a single-verse reference 'B C:V' and the
\* to-itself range 'B C:V-V' are both accepted and give identical results.
C6_SingleEqualsSelfRange ==
  last.op \in {"passage", "context", "parallel"} =>
    \A B \in {S_Genesis, S_John}, C \in {1, 3}, V \in {1, 16, 17} :
      last.ref = RangeRef(B, C, V, V) =>
        last.out.rows = SameFacade(SingleRef(B, C, V)).rows

\* C7: the window get_verse_window requests is (center - before,
\* center + after) with its start clamped to >= 1; no verse number below 1
\* is requested, every returned verse lies inside the window, and
\* 'Genesis 1:1' with before = 2, after = 2 returns at most verses 1..3.
C7_WindowClamped ==
  (last.op = "context" /\ last.out.windowed) =>
    LET center == last.out.parsed.v_start
    IN  /\ FitsSqliteInteger(center) =>
             /\ last.out.lo = (IF center - last.before >= 1
                                 THEN center - last.before ELSE 1)
             /\ last.out.hi = center + last.after
        /\ last.out.lo >= 1
        /\ \A i \in 1..Len(last.out.rows) :
             /\ last.out.rows[i].verse >= 1
             /\ last.out.rows[i].verse >= last.out.lo
             /\ last.out.rows[i].verse <= last.out.hi
        /\ (last.ref = R_Genesis_1_1 /\ last.before = 2 /\ last.after = 2) =>
             \A i \in 1..Len(last.out.rows) :
               last.out.rows[i].verse \in 1..3

C7_Witness ==
  /\ last.op = "context"
  /\ last.ref = R_Genesis_1_1
  /\ last.before = 2
  /\ last.after = 2
  /\ \E r \in verses : r.translation_code = S_KJV /\ r.book_num = 1 /\ r.verse = 0
  /\ \E r \in verses : r.translation_code = S_KJV /\ r.book_num = 1 /\ r.verse = 4
  /\ Len(last.out.rows) = 3
  /\ last.out.lo = 1

\* stored rows of one translation for one verse
StoredAt(tc, num, chapter, verse) ==
  {r \in verses : /\ r.translation_code = tc
                  /\ r.book_num = num
                  /\ r.chapter = chapter
                  /\ r.verse = verse}

RequestedCodes == {Upper(last.codes[i]) : i \in 1..Len(last.codes)}

\* C9: get_parallel_verses regroups the fetched rows by verse number: in
\* every returned record the mapping holds, for each requested translation
\* with a stored row for that book, chapter and verse, exactly that row's
\* text, and no entry for any other translation.
C9_RegroupedByVerse ==
  last.op \in {"parallel", "compare"} =>
    \A k \in 1..Len(last.out.rows) :
      LET rec == last.out.rows[k]
      IN  /\ DOMAIN rec.texts =
               {t \in RequestedCodes :
                  StoredAt(t, last.out.num, rec.chapter, rec.verse) # {}}
          /\ \A t \in DOMAIN rec.texts :
               \A r \in StoredAt(t, last.out.num, rec.chapter, rec.verse) :
                 rec.texts[t] = r.text

C9_Witness ==
  /\ last.op = "parallel"
  /\ last.ref = R_John_3_16_18
  /\ last.codes = <<S_BSB, S_kjv>>
  /\ Len(last.out.rows) = 3
  /\ DOMAIN last.out.rows[1].texts = {S_KJV, S_BSB}
  /\ last.out.rows[1].texts[S_KJV] # last.out.rows[1].texts[S_BSB]
  /\ DOMAIN last.out.rows[2].texts = {S_KJV}

\* the stored rows a fetch with the last call's parameters must return
MatchingStored ==
  {r \in verses : /\ r.translation_code \in RequestedCodes
                  /\ r.book_num = last.out.num
                  /\ r.chapter = last.out.parsed.chapter
                  /\ r.verse >= last.out.lo
                  /\ r.verse <= last.out.hi}

\* C10: the fetch returns exactly the stored rows with the requested
\* translation(s), book number and chapter whose verse lies in
\* [verse_start, verse_end], ordered by verse ascending and then by
\* translation_code.
C10_FetchExactAndOrdered ==
  (last.op \in FacadeOps /\ last.out.queried) =>
    LET f == last.out.fetched
    IN  /\ Len(f) = Cardinality(MatchingStored)
        /\ \A r \in MatchingStored :
             \E i \in 1..Len(f) :
               /\ f[i].translation_code = r.translation_code
               /\ f[i].book_code = r.book_code
               /\ f[i].chapter = r.chapter
               /\ f[i].verse = r.verse
               /\ f[i].text = r.text
        /\ \A i, j \in 1..Len(f) :
             i < j =>
               \/ f[i].verse < f[j].verse
               \/ /\ f[i].verse = f[j].verse
                  /\ StrLess(f[i].translation_code, f[j].translation_code)

C10_Witness ==
  /\ last.op = "parallel"
  /\ last.ref = R_John_3_16_18
  /\ last.out.queried
  /\ Len(last.out.fetched) = 4
  /\ last.out.fetched[1].translation_code = S_BSB
  /\ last.out.fetched[2].translation_code = S_KJV
  /\ last.out.fetched[2].verse = 16
  /\ last.out.fetched[4].verse = 18

\* the reference of the last call parsed and its book resolved against the
\* canon
BookResolved ==
  /\ last.out.parsed.ok
  /\ canon # <<>>
  /\ resolve_book_num(last.out.parsed.book, build_book_lookup(canon)) # 0

\* no stored row has the book and chapter of the last call's reference
\* under a requested translation
NothingStoredForChapter ==
  \A r \in verses :
    ~(/\ r.translation_code \in RequestedCodes
      /\ r.book_num =
           resolve_book_num(last.out.parsed.book, build_book_lookup(canon))
      /\ r.chapter = last.out.parsed.chapter)

\* C11: a well-formed reference whose book resolves but for which no verse
\* is stored (translation not imported, chapter or verse out of range) is
\* never a parse failure and never an error: every facade returns zero rows
\* as a normal result.
C11_NonexistentYieldsEmpty ==
  (last.op \in FacadeOps /\ BookResolved /\ NothingStoredForChapter) =>
    (~last.out.raised /\ last.out.rows = <<>>)

\* range references 'B C:S-E' whose verse-start is greater than their
\* verse-end
OutOfOrderRanges ==
  {RangeRef(B, C, p[1], p[2]) :
     B \in {S_Genesis, S_John}, C \in {1, 3},
     p \in {q \in (RefInts \cup {16, 18}) \X (RefInts \cup {16, 18}) :
              q[1] > q[2]}}
    \cup {R_HugeStartRange, R_NegativeStartRange}

\* C12: a range reference whose verse-start is greater than its verse-end
\* (e.g. 'John 3:18-16') is accepted by the parser and degrades to an empty
\* result set in passage and parallel fetches, never to an error or to a
\* non-empty result.
C12_OutOfOrderRangeEmpty ==
  (last.op \in RangeOps /\ ParserRan /\ last.ref \in OutOfOrderRanges) =>
    /\ last.out.parsed.ok
    /\ last.out.parsed.v_start > last.out.parsed.v_end
    /\ ~last.out.raised
    /\ last.out.rows = <<>>

\* the part of C12 that the facades meet: with a verse-start that is not
\* negative and all values inside the signed 64-bit range, the out-of-order
\* range parses and gives no row
C12_OutOfOrderInRangeEmpty ==
  (/\ last.op \in RangeOps /\ ParserRan
   /\ last.ref \in OutOfOrderRanges \ {R_HugeStartRange, R_NegativeStartRange}
   /\ \A S \in RefInts, E \in RefInts :
        S < 0 => last.ref # RangeRef(S_Genesis, 1, S, E)) =>
    /\ last.out.parsed.ok
    /\ last.out.parsed.v_start > last.out.parsed.v_end
    /\ ~last.out.raised
    /\ last.out.rows = <<>>

\* the last call parsed its reference, resolved the book and handed the
\* Reference to its fetch step
HandedToFetch ==
  /\ last.op \in FacadeOps
  /\ last.out.parsed.ok
  /\ last.out.windowed

\* C13 as stated: every Reference produced by parsing and handed to the
\* fetch step satisfies verse_end >= verse_start.
C13_VerseEndNotBeforeStart ==
  HandedToFetch => last.out.parsed.v_end >= last.out.parsed.v_start

\* C13 amended: the Reference handed to the fetch step carries the verse
\* numbers as written: verse_end = verse_start for a single-verse reference,
\* and for a range 'B C:S-E' with S >= 0 verse_start = S and verse_end = E,
\* so that verse_end >= verse_start holds exactly when E >= S.
C13_VerseOrderAsWritten ==
  HandedToFetch =>
    /\ \A B \in BookTokens \cup {S_John}, C \in RefInts \cup {3},
          V \in RefInts \cup {16, 17, 18} :
         last.ref = SingleRef(B, C, V) =>
           last.out.parsed.v_end = last.out.parsed.v_start
    /\ \A B \in {S_Genesis, S_John}, C \in RefInts \cup {3},
          S \in (RefInts \cup {16, 17, 18}) \cap Nat,
          E \in RefInts \cup {16, 17, 18} :
         last.ref = RangeRef(B, C, S, E) =>
           /\ last.out.parsed.v_start = S
           /\ last.out.parsed.v_end = E
           /\ (last.out.parsed.v_end >= last.out.parsed.v_start) <=> (E >= S)

C13_Witness ==
  /\ last.op \in RangeOps
  /\ last.ref = R_John_3_18_16
  /\ dbReady
  /\ HandedToFetch
  /\ last.out.num = 43
  /\ last.out.lo = 18
  /\ last.out.hi = 16
  /\ last.out.rows = <<>>

\* case variants of a book token: all lower case, all upper case, and the
\* tried tokens that differ from it in case only
CaseVariants(t) ==
  {Lower(t), Upper(t)} \cup {v \in ResolveTokens : Lower(v) = Lower(t)}

\* every case variant of the last call's token resolves as the token did
VariantsResolveAlike ==
  \A v \in CaseVariants(last.ref) :
    last.out.num =
      IF last.op = "resolve"
        THEN resolve_book_num(v, build_book_lookup(load_canon(canon)))
        ELSE loader_resolve_book(v, build_book_lookup(load_canon(canon)))

\* C14 as stated: book resolution is case-insensitive: every case variant
\* of a book token resolves to the same book number as the token itself.
C14_CaseInsensitive ==
  last.op \in {"resolve", "loader_resolve"} => VariantsResolveAlike

\* C14 amended: for a canon whose codes and names are pairwise distinct
\* across books when case is ignored, every case variant of a book token
\* resolves to the same book number as the token itself.
C14_CaseInsensitiveCaseDistinctCanon ==
  (last.op \in {"resolve", "loader_resolve"} /\ DistinctIgnoringCase(canon))
    => VariantsResolveAlike

C14_Witness ==
  /\ last.op = "resolve"
  /\ canon = StandardCanon
  /\ last.ref = K_GENESIS
  /\ last.out.num = 1
  /\ K_Genesis \in CaseVariants(last.ref)
  /\ resolve_book_num(K_Genesis, build_book_lookup(canon)) = 1

\* the second half of C14 on the facades: with the canon of the program,
\* 'B C:V' and its lower-case and upper-case spellings fetch the same rows
C14_CaseVariantsSameRows ==
  last.op \in {"passage", "context", "parallel"} =>
    \A B \in BookTokens \cup {S_John}, C \in RefInts \cup {3},
       V \in RefInts \cup {16} :
      last.ref = SingleRef(B, C, V) =>
        /\ last.out.rows = SameFacade(SingleRef(Lower(B), C, V)).rows
        /\ last.out.rows = SameFacade(SingleRef(Upper(B), C, V)).rows

QueryOps == {"search", "passage", "context", "parallel", "compare"}

\* the last call went as far as its statement against the verse store: a
\* search with a non-blank query, or a fetch with a resolved Reference
ReachedStore ==
  \/ last.op = "search" /\ Strip(last.ref) # <<>>
  \/ HandedToFetch

\* the store fails: the database file is missing (the read-only connection
\* fails) or it has no verse table (the query fails)
StoreFails == ~dbFile \/ ~dbReady

\* C15: a connection or query failure against the verse store during
\* search, passage, context or parallel is surfaced as a warning and an
\* empty result: the facade does not raise, and it does not retry the
\* connection or the query.
C15_StoreFailureWarnsOnce ==
  (last.op \in QueryOps /\ ReachedStore /\ StoreFails) =>
    /\ last.out.warned
    /\ last.out.rows = <<>>
    /\ ~last.out.raised
    /\ ~last.out.queried
    /\ last.out.connects = 1
    /\ last.out.opened = (IF dbFile THEN 1 ELSE 0)
    /\ last.out.closed = last.out.opened

C15_Witness ==
  /\ last.op = "context"
  /\ last.ref = R_John_3_16
  /\ canon # <<>>
  /\ dbFile /\ ~dbReady
  /\ ReachedStore
  /\ last.out.warned
  /\ last.out.connects = 1
  /\ last.out.opened = 1

\* the connection-failure case of C15
C15_WitnessNoFile ==
  /\ last.op = "search"
  /\ last.ref = Q_loved
  /\ ~dbFile
  /\ last.out.warned
  /\ last.out.connects = 1
  /\ last.out.opened = 0

\* C16: when the canon configuration is absent, every book-dependent
\* facade (passage, context, parallel) returns an empty result with a
\* warning, for every reference and translation code.
C16_NoCanonWarnsEmpty ==
  (last.op \in FacadeOps /\ canon = <<>>) =>
    /\ last.out.rows = <<>>
    /\ last.out.printed = <<>>
    /\ last.out.warned
    /\ ~last.out.raised
    /\ ~last.out.queried

C16_Witness ==
  /\ last.op = "parallel"
  /\ canon = <<>>
  /\ dbReady
  /\ last.ref = R_John_3_16_18
  /\ last.codes # <<>>
  /\ last.out.parsed.ok
  /\ last.out.warned
  /\ last.out.rows = <<>>
  /\ last.out.connects = 0

\* C17: the query subsystem is read-only: no call to search_verses,
\* get_passage, get_verse_window or get_parallel_verses, with any arguments
\* and in any order, changes a row of the verse table or of any other
\* table (nor creates the tables or the database file).
C17_QueriesReadOnly ==
  [][last'.op \in QueryOps =>
       /\ verses' = verses
       /\ translations' = translations
       /\ dbReady' = dbReady
       /\ dbFile' = dbFile]_vars

C17_Witness ==
  /\ last.op = "search"
  /\ last.ref = Q_loved
  /\ last.codes = <<>>
  /\ last.out.queried
  /\ Len(last.out.rows) = 2
  /\ last.out.rows[1].translation_code = S_BSB
  /\ last.out.rows[2].translation_code = S_KJV
  /\ Cardinality(verses) > 2
  /\ translations # {}

\* the '<Book> <Chapter>:<Verse>' part of a printed result header, after
\* its '[code] ' prefix
PrintedReference(block) ==
  SubSeq(block.header, Index(block.header, "]") + 2, Len(block.header))

\* C20: for every well-formed reference '<Book> <Chapter>:<Verse>' whose
\* verse is stored, parsing it, fetching it and re-formatting the returned
\* row as '<Book> <Chapter>:<Verse>' yields the same chapter and verse
\* integers as the input (round trip on the numeric fields).
C20_RoundTripNumericFields ==
  (/\ last.op = "passage"
   /\ last.out.parsed.ok
   /\ last.out.parsed.v_start = last.out.parsed.v_end
   /\ last.out.rows # <<>>) =>
    /\ Len(last.out.printed) = 1
    /\ search_parse_reference(PrintedReference(last.out.printed[1])).ok
    /\ search_parse_reference(PrintedReference(last.out.printed[1])).chapter
         = last.out.parsed.chapter
    /\ search_parse_reference(PrintedReference(last.out.printed[1])).v_start
         = last.out.parsed.v_start
    /\ search_parse_reference(PrintedReference(last.out.printed[1])).v_end
         = last.out.parsed.v_start
    /\ \A B \in BookTokens \cup {S_John}, C \in RefInts \cup {3},
          V \in RefInts \cup {16, 17, 18} :
         last.ref = SingleRef(B, C, V) =>
           /\ search_parse_reference(
                PrintedReference(last.out.printed[1])).chapter = C
           /\ search_parse_reference(
                PrintedReference(last.out.printed[1])).v_start = V

C20_Witness ==
  /\ last.op = "passage"
  /\ last.ref = R_john_3_16
  /\ Len(last.out.rows) = 1
  /\ Len(last.out.printed) = 1
  /\ PrintedReference(last.out.printed[1]) = R_John_3_16
  /\ last.out.parsed.chapter = 3
  /\ last.out.parsed.v_start = 16

----------------------------------------------------------------------------
(* The bulk imports as transactions: run_import (cli/import_berean.py),    *)
(* cmd_import_bible_csv (cli/study_bible_compendium.py) and the write      *)
(* phase of import_bible_from_excel (sbc/loader.py).  Here verses holds    *)
(* the committed rows of the tables the import writes, and last.out the    *)
(* running import: the rows of its open transaction (pending), its         *)
(* connection, the rows it has written so far with the number of them      *)
(* that were written when it last committed, and its calls on the          *)
(* connection in order.                                                    *)

\* if row_count % 500 == 0: conn.commit()
TextBatch == 500

\* if word_count % 1000 == 0: conn.commit()
WordsBatch == 1000

\* data rows of berean_text.csv and of berean_tables.csv
BereanTextRows == 503

BereanWordRows == 1003

\* rows the loop skips: a verse reference parse_verse_ref cannot read
\* (caught by the loop's except Exception), a berean_tables row with fewer
\* than 20 columns
SkippedRows == {<<"text", 2>>, <<"words", 5>>}

S_Exodus == <<"E","x","o","d","u","s">>

S_EXO == <<"E","X","O">>

S_Judges == <<"J","u","d","g","e","s">>

S_Jude == <<"J","u","d","e">>

\* one row of a normalized Bible CSV: book, the optional book_code column
\* (<<>> when the file has none or the cell is empty), chapter and verse;
\* numeric is FALSE when int() rejects the chapter or verse with ValueError
CsvVerseRow(book, book_code, chapter, verse, numeric) ==
  [book |-> book, book_code |-> book_code, chapter |-> chapter,
   verse |-> verse, numeric |-> numeric]

\* the rows of a normalized Bible CSV; the fourth row has a verse int()
\* rejects
LegacyCsv ==
  << CsvVerseRow(S_Genesis, <<>>, 1, 1, TRUE),
     CsvVerseRow(S_Genesis, <<>>, 1, 2, TRUE),
     CsvVerseRow(S_Genesis, <<>>, 2, 1, TRUE),
     CsvVerseRow(S_Genesis, <<>>, 2, 0, FALSE),
     CsvVerseRow(S_Genesis, <<>>, 2, 2, TRUE),
     CsvVerseRow(S_Exodus, S_EXO, 1, 1, TRUE),
     CsvVerseRow(S_Judges, <<>>, 1, 1, TRUE),
     CsvVerseRow(S_Jude, <<>>, 1, 2, TRUE) >>

\* largest db_rows list given to executemany
MaxExcelRows == 3

ImportOps == {"run_import", "import_bible_csv", "import_bible_from_excel"}

BereanRows(phase) == IF phase = "text" THEN BereanTextRows ELSE BereanWordRows

Batch(phase) == IF phase = "text" THEN TextBatch ELSE WordsBatch

\* an import that has connected and run the calls in events
Importing(phase, events) ==
  [phase |-> phase, pos |-> 0, count |-> 0, pending |-> {},
   written |-> <<>>, upTo |-> 0, conn |-> "open", events |-> events,
   raised |-> FALSE, books |-> {}, chapters |-> {}, book_ids |-> <<>>]

\* cursor.execute("INSERT ..."): the row joins the open transaction
insert_row(o, row) ==
  [o EXCEPT !.pending = @ \cup {row}, !.written = Append(@, row),
            !.count = @ + 1]

\* conn.commit(): the open transaction becomes part of the database
commit(o) ==
  [o EXCEPT !.pending = {}, !.upTo = Len(o.written),
            !.events = Append(@, "commit")]

\* conn.rollback()
rollback(o) == [o EXCEPT !.pending = {}, !.events = Append(@, "rollback")]

\* conn.close(): an uncommitted transaction is discarded
close(o) ==
  [o EXCEPT !.pending = {}, !.conn = "closed", !.events = Append(@, "close")]

\* the import moves on to outcome o, committing its transaction first when
\* the code commits at this point
StepTo(op, o, committing) ==
  /\ verses' = (IF committing THEN verses \cup o.pending ELSE verses)
  /\ last' = Call(op, <<>>, <<>>, 0, 0, IF committing THEN commit(o) ELSE o)
  /\ UNCHANGED <<otherTables, canon, dbReady, translations>>

InitImport ==
  /\ canon = <<>>
  /\ dbFile = FALSE
  /\ dbReady = FALSE
  /\ verses = {}
  /\ translations = {}
  /\ OtherTablesEmpty
  /\ last = Idle

\* run_import: sqlite3.connect, create_berean_schema (executescript,
\* commit), then import_berean_text
RunImport ==
  /\ last.op = "idle"
  /\ verses = {}
  /\ dbFile' = TRUE
  /\ StepTo("run_import", Importing("text", <<"connect", "commit">>), FALSE)

\* one pass of "for row in reader" in import_berean_text or
\* import_berean_tables: a skipped row, or an INSERT followed by a commit
\* at every full batch
BereanRow ==
  /\ last.op = "run_import"
  /\ last.out.phase \in {"text", "words"}
  /\ last.out.pos < BereanRows(last.out.phase)
  /\ IF <<last.out.phase, last.out.pos + 1>> \in SkippedRows
       THEN StepTo("run_import", [last.out EXCEPT !.pos = @ + 1], FALSE)
       ELSE StepTo("run_import",
                   insert_row([last.out EXCEPT !.pos = @ + 1],
                              <<last.out.phase, last.out.pos + 1>>),
                   (last.out.count + 1) % Batch(last.out.phase) = 0)
  /\ UNCHANGED dbFile

\* the reader raises while fetching the next row (csv.Error, outside the
\* loop's try): run_import's except Exception rolls back and exits, its
\* finally closes
BereanReaderError ==
  /\ last.op = "run_import"
  /\ last.out.phase \in {"text", "words"}
  /\ last.out.pos < BereanRows(last.out.phase)
  /\ StepTo("run_import",
            [close(rollback(last.out)) EXCEPT !.raised = TRUE,
                                              !.phase = "done"],
            FALSE)
  /\ UNCHANGED dbFile

\* the reader is exhausted: import_berean_text commits and
\* import_berean_tables starts; import_berean_tables inserts the Strong's
\* definitions, commits, and run_import's finally closes
BereanPhaseEnd ==
  /\ last.op = "run_import"
  /\ last.out.phase \in {"text", "words"}
  /\ last.out.pos = BereanRows(last.out.phase)
  /\ verses' = verses \cup last.out.pending
                 \cup (IF last.out.phase = "words" THEN {<<"strongs", 1>>}
                       ELSE {})
  /\ last' = Call("run_import", <<>>, <<>>, 0, 0,
                  IF last.out.phase = "text"
                    THEN [commit(last.out) EXCEPT !.phase = "words",
                                                  !.pos = 0, !.count = 0]
                    ELSE [close(commit(insert_row(last.out, <<"strongs", 1>>)))
                            EXCEPT !.phase = "done"])
  /\ UNCHANGED <<otherTables, canon, dbFile, dbReady, translations>>

\* cmd_import_bible_csv: get_connection, then sys.exit(1) for a missing
\* file, or import_bible_csv: init_schema (commit) and
\* get_or_create_version (INSERT, commit)
CmdImportBibleCsv(is_file) ==
  /\ last.op = "idle"
  /\ verses = {}
  /\ dbFile' = TRUE
  /\ IF is_file
       THEN StepTo("import_bible_csv",
                   Importing("csv", <<"connect", "commit", "commit">>), FALSE)
       ELSE StepTo("import_bible_csv",
                   Importing("done", <<"connect", "sys.exit">>), FALSE)

\* code = book_code or book_name[:3].upper()
book_code_or_prefix(book_name, book_code) ==
  IF book_code # <<>> THEN book_code
  ELSE Upper(SubSeq(book_name, 1, SetMin({3, Len(book_name)})))

\* SELECT id FROM books WHERE version_id = ? AND name = ?
select_book_by_name(books, version_id, book_name) ==
  {b.id : b \in {x \in books : /\ x.version_id = version_id
                               /\ x.name = book_name}}

\* SELECT id FROM books WHERE version_id = ? AND code = ?
select_book_by_code(books, version_id, code) ==
  {b.id : b \in {x \in books : /\ x.version_id = version_id
                               /\ x.code = code}}

\* the id get_or_create_book finds, by name and then by code; 0 when
\* neither SELECT returns a row
existing_book_id(books, version_id, book_name, code) ==
  IF select_book_by_name(books, version_id, book_name) # {}
    THEN SetMax(select_book_by_name(books, version_id, book_name))
    ELSE IF select_book_by_code(books, version_id, code) # {}
      THEN SetMax(select_book_by_code(books, version_id, code))
      ELSE 0

\* cur.lastrowid of an INSERT into a table with an AUTOINCREMENT id from
\* which nothing is deleted
lastrowid(table) == SetMax({0} \cup {x.id : x \in table}) + 1

\* the id get_or_create_version returns to import_bible_csv, which inserts
\* the first bible_versions row of the new database
csv_version_id == lastrowid({})

\* the id get_or_create_book returns
get_or_create_book(books, version_id, book_name, code) ==
  IF existing_book_id(books, version_id, book_name, code) # 0
    THEN existing_book_id(books, version_id, book_name, code)
    ELSE lastrowid(books)

\* get_or_create_book: INSERT and commit when the book is new
create_book(o, book_name, code) ==
  IF existing_book_id(o.books, csv_version_id, book_name, code) # 0
    THEN o
    ELSE [commit(o) EXCEPT !.books = @ \cup
            {[id |-> lastrowid(o.books), version_id |-> csv_version_id,
              code |-> code, name |-> book_name]}]

\* get_or_create_chapter: INSERT and commit when the chapter is new
create_chapter(o, book_id, chapter) ==
  IF <<book_id, chapter>> \in o.chapters THEN o
  ELSE [commit(o) EXCEPT !.chapters = @ \cup {<<book_id, chapter>>}]

\* book_id = get_or_create_book(conn, version_id, book, book_code) and
\* chap_id = get_or_create_chapter(conn, book_id, chapter) for one row
csv_row_books(o, row, book_id) ==
  [create_chapter(create_book(o, row.book,
                              book_code_or_prefix(row.book, row.book_code)),
                  book_id, row.chapter)
     EXCEPT !.book_ids = Append(@, book_id)]

\* the book id import_bible_csv stores the row under
csv_book_id(o, row) ==
  get_or_create_book(o.books, csv_version_id, row.book,
                     book_code_or_prefix(row.book, row.book_code))

\* one pass of "for row in reader" in import_bible_csv: a row whose chapter
\* or verse raises ValueError is skipped; get_or_create_book and
\* get_or_create_chapter commit when they create their row, which commits
\* the verses inserted since; then the verse is inserted
CsvRow ==
  /\ last.op = "import_bible_csv"
  /\ last.out.phase = "csv"
  /\ last.out.pos < Len(LegacyCsv)
  /\ IF ~LegacyCsv[last.out.pos + 1].numeric
       THEN StepTo("import_bible_csv",
                   [last.out EXCEPT !.pos = @ + 1,
                                    !.book_ids = Append(@, 0)],
                   FALSE)
       ELSE /\ verses' =
                 (IF <<csv_book_id(last.out, LegacyCsv[last.out.pos + 1]),
                       LegacyCsv[last.out.pos + 1].chapter>>
                        \in last.out.chapters
                    THEN verses ELSE verses \cup last.out.pending)
            /\ last' = Call("import_bible_csv", <<>>, <<>>, 0, 0,
                 insert_row(
                   csv_row_books([last.out EXCEPT !.pos = @ + 1],
                                 LegacyCsv[last.out.pos + 1],
                                 csv_book_id(last.out,
                                             LegacyCsv[last.out.pos + 1])),
                   <<"csv", last.out.pos + 1>>))
            /\ UNCHANGED <<otherTables, canon, dbReady, translations>>
  /\ UNCHANGED dbFile

\* the next row is short: row["chapter"] is None and int(None) raises
\* TypeError, which nothing catches; no rollback and no close is called
CsvRowError ==
  /\ last.op = "import_bible_csv"
  /\ last.out.phase = "csv"
  /\ last.out.pos < Len(LegacyCsv)
  /\ StepTo("import_bible_csv",
            [last.out EXCEPT !.raised = TRUE, !.phase = "done"], FALSE)
  /\ UNCHANGED dbFile

\* the reader is exhausted: conn.commit(); the command returns
CsvEnd ==
  /\ last.op = "import_bible_csv"
  /\ last.out.phase = "csv"
  /\ last.out.pos = Len(LegacyCsv)
  /\ StepTo("import_bible_csv", [last.out EXCEPT !.phase = "done"], TRUE)
  /\ UNCHANGED dbFile

\* the db_rows 1..n as executemany inserts them, stopping before row
\* failing (0: no row fails)
RECURSIVE insert_many(_, _, _, _)
insert_many(o, i, n, failing) ==
  IF i > n \/ i = failing THEN o
  ELSE insert_many(insert_row(o, <<"excel", i>>), i + 1, n, failing)

\* register_translation: _apply_schema and the INSERT, each in its own
\* "with get_conn()"
RegisterTranslationCalls ==
  <<"connect", "commit", "close", "connect", "commit", "close">>

\* the write phase up to the end of executemany, after the two
\* ensure_*_schema connections
excel_written(n, failing) ==
  insert_many(Importing("done", <<"connect", "commit", "close", "connect",
                                  "commit", "close", "connect">>),
              1, n, failing)

\* import_bible_from_excel with n prepared rows: the two ensure_*_schema
\* connections, then "with get_conn()": executemany and commit; an
\* exception in executemany leaves the with block, whose finally closes
\* the connection; after a commit, register_translation opens its own two
\* connections
ImportBibleFromExcel(n, failing) ==
  /\ last.op = "idle"
  /\ verses = {}
  /\ dbFile' = TRUE
  /\ verses' = (IF failing = 0
                  THEN verses \cup excel_written(n, 0).pending
                  ELSE verses)
  /\ last' = Call("import_bible_from_excel", <<>>, <<>>, 0, 0,
                  IF failing = 0
                    THEN [close(commit(excel_written(n, 0)))
                            EXCEPT !.events = @ \o RegisterTranslationCalls]
                    ELSE [close(excel_written(n, failing))
                            EXCEPT !.raised = TRUE])
  /\ UNCHANGED <<otherTables, canon, dbReady, translations>>

\* the process ends; what was not committed is gone with it
ProcessEnd ==
  /\ last.op \in ImportOps
  /\ last.out.phase = "done"
  /\ last' = Idle
  /\ UNCHANGED <<otherTables, canon, dbFile, dbReady, verses, translations>>

NextImport ==
  \/ RunImport
  \/ BereanRow
  \/ BereanReaderError
  \/ BereanPhaseEnd
  \/ \E is_file \in BOOLEAN : CmdImportBibleCsv(is_file)
  \/ CsvRow
  \/ CsvRowError
  \/ CsvEnd
  \/ \E n \in 1..MaxExcelRows :
        \E failing \in 0..n : ImportBibleFromExcel(n, failing)
  \/ ProcessEnd

ImportSpec == InitImport /\ [][NextImport]_vars

----------------------------------------------------------------------------
(* Properties of the imports.                                              *)

\* the command of the last call has finished
CommandFinished == last.op \in ImportOps /\ last.out.phase = "done"

\* number of calls named e among the import's calls on its connections
Calls(e) ==
  Cardinality({i \in 1..Len(last.out.events) : last.out.events[i] = e})

\* C18: each command opens one database connection, performs its
\* statements and closes it: on every exit path (rows returned, parse or
\* resolution failure, database error, import failure) the connection it
\* opened has been released, and no connection remains open when the
\* command finishes.
C18_ConnectionReleased ==
  CommandFinished =>
    /\ last.out.conn = "closed"
    /\ Calls("close") = Calls("connect")

\* the import of the last call ended in an exception raised after it had
\* started on its rows
FailedMidImport == CommandFinished /\ last.out.raised

\* position of the first call named e among the import's calls (0: none)
FirstCall(e) ==
  IF Calls(e) = 0 THEN 0
  ELSE SetMin({i \in 1..Len(last.out.events) : last.out.events[i] = e})

\* the database holds exactly the rows written up to the last commit
CommittedRowsOnly ==
  verses = {last.out.written[i] : i \in 1..last.out.upTo}

\* C19: in every bulk import (run_import, import_bible_from_excel,
\* import_bible_csv) an exception raised mid-import triggers a rollback of
\* the in-progress transaction before the connection closes, so the
\* database afterwards holds exactly the rows written up to the last batch
\* commit (every 500 verses in import_berean_text, every 1000 words in
\* import_berean_tables) and none written after it.
C19_RollbackBeforeClose ==
  FailedMidImport =>
    /\ Calls("rollback") = 1
    /\ last.out.conn = "closed"
    /\ last.out.events[Len(last.out.events)] = "close"
    /\ FirstCall("rollback") < Len(last.out.events)
    /\ CommittedRowsOnly

\* the part of C19 every import meets: after an exception the database
\* holds the rows written up to the last commit and no other, at the end
\* of the command and after the process has ended
C19_CommittedRowsSurvive ==
  FailedMidImport =>
    /\ CommittedRowsOnly
    /\ last.op = "run_import" =>
         /\ last.out.events[Len(last.out.events)] = "close"
         /\ last.out.events[Len(last.out.events) - 1] = "rollback"
         /\ Cardinality({r \in verses : r[1] = "text"})
              \in {0, TextBatch, BereanTextRows - 1}
         /\ Cardinality({r \in verses : r[1] = "words"}) \in {0, WordsBatch}

\* the part of C18 the commands of compendium.py meet: every connection
\* get_conn opened during init-schema, an import or a query has been
\* closed when the command returns or raises
C18_GetConnSessionsClosed ==
  last.out.closed = last.out.opened /\ last.out.opened <= last.out.connects

----------------------------------------------------------------------------
(* Dry runs of import_bible_from_excel.                                    *)

\* C21: with dry_run=True import_bible_from_excel writes nothing to the
\* database: whatever the sheet and the prior state, the database after the
\* call (its file, its schema, its verse and translation rows) is the
\* database before it
C21_DryRunWritesNothing ==
  [][(last'.op = "import" /\ last'.dry_run)
       => UNCHANGED <<dbFile, dbReady, verses, translations>>]_vars

\* the part of C21 about rows: a dry run adds, changes and removes no row of
\* the verse table or of the translations table
C21_DryRunKeepsRows ==
  [][(last'.op = "import" /\ last'.dry_run)
       => UNCHANGED <<verses, translations>>]_vars

----------------------------------------------------------------------------
(* init-policy (cli/init_policy.py): the hermeneutical_policy table and    *)
(* the runs that initialise it.  A run is a process of its own, so two     *)
(* runs may overlap; each step below is one statement on the run's         *)
(* connection.                                                             *)

POLICY_VERSION == "1.0.0"

\* content.replace('\r\n', '\n').replace('\r', '\n')
RECURSIVE normalize_line_endings(_)
normalize_line_endings(s) ==
  IF s = <<>> THEN <<>>
  ELSE IF Head(s) = "\r"
    THEN <<"\n">> \o normalize_line_endings(
                       IF Len(s) > 1 /\ s[2] = "\n" THEN Tail(Tail(s))
                       ELSE Tail(s))
    ELSE <<Head(s)>> \o normalize_line_endings(Tail(s))

\* read_text_file on a file that exists
read_text_file(content) == Strip(normalize_line_endings(content))

\* compute_checksum: the SHA-256 digest of preface + "\n\n" + body, kept as
\* the message it was taken of (equal messages, equal digests)
compute_checksum(preface, body) ==
  <<"sha256">> \o preface \o <<"\n", "\n">> \o body

\* the row insert_policy writes (title and effective_utc left out)
policy_row(preface, body) ==
  [id |-> 1, preface |-> preface, body |-> body,
   version |-> POLICY_VERSION, checksum |-> compute_checksum(preface, body)]

\* policy_exists: SELECT COUNT(*) FROM hermeneutical_policy, count >= 1
policy_exists(rows) == Cardinality(rows) >= 1

\* mutant: a table without its primary key and its insert trigger
insert_refused_never(rows) == FALSE

\* id INTEGER PRIMARY KEY CHECK (id = 1) and the trigger
\* hermeneutical_policy_no_extra_inserts: an INSERT into a table that
\* holds a row is aborted (sqlite3.IntegrityError)
insert_refused(rows) == Cardinality(rows) >= 1

\* another connection has an INSERT that it has not committed: a second
\* writer gets "database is locked" (sqlite3.OperationalError)
write_locked(p) == \E q \in Procs \ {p} : runs[q].pc = "inserted"

\* what a step of init-policy leaves alone
PolicyFrame ==
  UNCHANGED <<spineTables, coreTables, canon, dbReady, verses, translations,
              last>>

T_Preface == <<"P","r","e","f","a","c","e">>

T_PrefaceCrLf == <<" ","P","r","e","f","a","c","e","\r","\n">>

T_Revised == <<"R","e","v","i","s","e","d","\r","2">>

T_Body == <<"B","o","d","y","\n">>

PrefaceFiles ==
  {NoFile, PolicyFile(TRUE, T_Preface), PolicyFile(TRUE, T_PrefaceCrLf),
   PolicyFile(TRUE, T_Revised)}

BodyFiles == {NoFile, PolicyFile(TRUE, T_Body)}

InitPolicy ==
  /\ canon = <<>>
  /\ dbFile = FALSE
  /\ dbReady = FALSE
  /\ verses = {}
  /\ translations = {}
  /\ OtherTablesEmpty
  /\ last = Idle

\* run_init_policy up to sqlite3.connect, which creates a missing file
RunInitPolicy(p, schema, preface_file, body_file) ==
  /\ runs[p].pc = "idle"
  /\ runs' = [runs EXCEPT ![p] =
                [NoRun EXCEPT !.pc = "connected", !.schema = schema,
                              !.preface_file = preface_file,
                              !.body_file = body_file]]
  /\ dbFile' = TRUE
  /\ UNCHANGED policy
  /\ PolicyFrame

\* apply_schema: sys.exit(1) when the schema file is missing, else
\* executescript and commit
ApplySchema(p) ==
  /\ runs[p].pc = "connected"
  /\ runs' = [runs EXCEPT ![p].pc =
                IF runs[p].schema THEN "schema" ELSE "failed"]
  /\ UNCHANGED <<dbFile, policy>>
  /\ PolicyFrame

\* read_text_file(preface_path), read_text_file(body_path): sys.exit(1)
\* on the first file that is missing
ReadPolicyFiles(p) ==
  /\ runs[p].pc = "schema"
  /\ runs' = [runs EXCEPT ![p] =
                IF runs[p].preface_file.exists /\ runs[p].body_file.exists
                  THEN [@ EXCEPT
                          !.pc = "read",
                          !.preface = read_text_file(runs[p].preface_file.content),
                          !.body = read_text_file(runs[p].body_file.content)]
                  ELSE [@ EXCEPT !.pc = "failed"]]
  /\ UNCHANGED <<dbFile, policy>>
  /\ PolicyFrame

\* insert_policy: if policy_exists(conn): return
CheckPolicyExists(p) ==
  /\ runs[p].pc = "read"
  /\ runs' = [runs EXCEPT ![p].pc =
                IF policy_exists(policy) THEN "finished" ELSE "absent"]
  /\ UNCHANGED <<dbFile, policy>>
  /\ PolicyFrame

\* insert_policy: cur.execute("INSERT INTO hermeneutical_policy ...");
\* sqlite3.IntegrityError is reported and the run returns, any other
\* sqlite3.Error ends it with sys.exit(1)
InsertPolicy(p) ==
  /\ runs[p].pc = "absent"
  /\ runs' = [runs EXCEPT ![p].pc =
                IF write_locked(p) THEN "failed"
                ELSE IF insert_refused(policy) THEN "finished"
                ELSE "inserted"]
  /\ UNCHANGED <<dbFile, policy>>
  /\ PolicyFrame

\* insert_policy: conn.commit()
CommitPolicy(p) ==
  /\ runs[p].pc = "inserted"
  /\ policy' = policy \cup {policy_row(runs[p].preface, runs[p].body)}
  /\ runs' = [runs EXCEPT ![p].pc = "finished"]
  /\ UNCHANGED dbFile
  /\ PolicyFrame

\* finally: conn.close(), and the process ends
PolicyProcessEnd(p) ==
  /\ runs[p].pc \in {"failed", "finished"}
  /\ runs' = [runs EXCEPT ![p] = NoRun]
  /\ UNCHANGED <<dbFile, policy>>
  /\ PolicyFrame

NextPolicy ==
  \/ \E p \in Procs, schema \in BOOLEAN, preface_file \in PrefaceFiles,
        body_file \in BodyFiles :
        RunInitPolicy(p, schema, preface_file, body_file)
  \/ \E p \in Procs : ApplySchema(p)
  \/ \E p \in Procs : ReadPolicyFiles(p)
  \/ \E p \in Procs : CheckPolicyExists(p)
  \/ \E p \in Procs : InsertPolicy(p)
  \/ \E p \in Procs : CommitPolicy(p)
  \/ \E p \in Procs : PolicyProcessEnd(p)

PolicySpec == InitPolicy /\ [][NextPolicy]_vars

----------------------------------------------------------------------------
(* The policy is locked once initialised.                                  *)

\* C22: after any sequence of init-policy runs with any preface and body
\* texts there is at most one policy row; the row is the one written by the
\* first run that commits, with that run's preface, body, version and
\* checksum; once a row exists no run changes the table
C22_PolicyLocked ==
  [][/\ Cardinality(policy') <= 1
     /\ policy # {} => policy' = policy
     /\ (policy = {} /\ policy' # {}) =>
          \E p \in Procs :
            /\ runs[p].pc = "inserted"
            /\ policy' = {[id |-> 1,
                           preface |-> runs[p].preface,
                           body |-> runs[p].body,
                           version |-> "1.0.0",
                           checksum |-> <<"sha256">> \o runs[p].preface
                                          \o <<"\n", "\n">> \o runs[p].body]}
    ]_vars

\* a run with another preface has gone through insert_policy and the row of
\* the first run is still the only one
C22_Witness ==
  \E p \in Procs : \E r \in policy :
    /\ runs[p].pc = "finished"
    /\ runs[p].preface # <<>>
    /\ runs[p].preface # r.preface

----------------------------------------------------------------------------
(* build-spine (sbc/spine.py): canonical_verses, derived from the verse    *)
(* table, and the verse_id column that points into it.                     *)

\* one row of the SELECT ... GROUP BY book_code, chapter, verse,
\* normalized_ref, with MIN(book_num)
verse_group(rows, r) ==
  [book_num |-> SetMin({q.book_num : q \in
                  {x \in rows : /\ x.book_code = r.book_code
                                /\ x.chapter = r.chapter
                                /\ x.verse = r.verse
                                /\ x.normalized_ref = r.normalized_ref}}),
   book_code |-> r.book_code, chapter |-> r.chapter, verse |-> r.verse,
   normalized_ref |-> r.normalized_ref]

verse_groups(rows) == {verse_group(rows, r) : r \in rows}

\* the order in which GROUP BY yields its groups: by the grouping columns
ByGroup(g1, g2) ==
  \/ StrLess(g1.book_code, g2.book_code)
  \/ /\ g1.book_code = g2.book_code
     /\ \/ g1.chapter < g2.chapter
        \/ g1.chapter = g2.chapter /\ g1.verse < g2.verse

RECURSIVE OrderByGroup(_)
OrderByGroup(S) ==
  IF S = {} THEN <<>>
  ELSE LET first == CHOOSE r \in S : \A q \in S \ {r} : ~ByGroup(q, r)
       IN  <<first>> \o OrderByGroup(S \ {first})

\* the id an INSERT gives a new row of canonical_verses
next_id(table) ==
  IF table = {} THEN 1 ELSE SetMax({r.id : r \in table}) + 1

\* a group as a row of canonical_verses
canonical_row(id, g) ==
  [id |-> id, book_num |-> g.book_num, book_code |-> g.book_code,
   chapter |-> g.chapter, verse |-> g.verse,
   normalized_ref |-> g.normalized_ref]

\* mutant: INSERT OR REPLACE, the row of a known normalized_ref is written
\* again under a new id
insert_or_replace(table, g) ==
  {r \in table : r.normalized_ref # g.normalized_ref}
    \cup {canonical_row(next_id(table), g)}

\* INSERT OR IGNORE INTO canonical_verses: a group whose normalized_ref is
\* in the table already is skipped (UNIQUE on normalized_ref)
insert_or_ignore(table, g) ==
  IF \E r \in table : r.normalized_ref = g.normalized_ref THEN table
  ELSE table \cup {canonical_row(next_id(table), g)}

RECURSIVE insert_groups(_, _)
insert_groups(table, groups) ==
  IF groups = <<>> THEN table
  ELSE insert_groups(insert_or_ignore(table, Head(groups)), Tail(groups))

\* _build_canonical_from_verses: INSERT OR IGNORE ... SELECT ... GROUP BY
build_canonical_from_verses(table, rows) ==
  insert_groups(table, OrderByGroup(verse_groups(rows)))

\* mutant: the subquery does not compare normalized_ref
canonical_id_any_ref(table, ref) ==
  IF table = {} THEN 0 ELSE SetMin({r.id : r \in table})

\* (SELECT id FROM canonical_verses cv WHERE cv.normalized_ref = ...),
\* NULL when no row matches
canonical_id(table, ref) ==
  IF \E r \in table : r.normalized_ref = ref
    THEN SetMin({r.id : r \in {x \in table : x.normalized_ref = ref}})
    ELSE 0

\* _attach_verse_ids_to_verses: UPDATE verses_normalized SET verse_id =
\* (...) WHERE verse_id IS NULL
attach_verse_ids(ids, table) ==
  [r \in DOMAIN ids |->
     IF ids[r] = 0 THEN canonical_id(table, r.normalized_ref) ELSE ids[r]]

\* what build_spine logs: canonical_verses rows, verse rows with a
\* verse_id, verse rows, verse rows still missing a verse_id
spine_counts(table, ids) ==
  << Cardinality(table),
     Cardinality({r \in DOMAIN ids : ids[r] # 0}),
     Cardinality(DOMAIN ids),
     Cardinality({r \in DOMAIN ids : ids[r] = 0}) >>

\* build_spine's outcome: seven "with get_conn()" blocks one after the
\* other; without the verse table each step warns and returns
spine_outcome(table, ids) ==
  [sessions(NoOutcome, 7) EXCEPT
     !.warned = ~dbReady,
     !.printed = IF dbReady THEN spine_counts(table, ids) ELSE <<>>]

\* build_spine: ensure_canonical_schema, ensure_notes_schema,
\* ensure_verses_has_verse_id, _build_canonical_from_verses,
\* _attach_verse_ids_to_verses
BuildSpine ==
  /\ last.op = "idle"
  /\ verseIdColumn' = (verseIdColumn \/ dbReady)
  /\ canonical' = IF dbReady
                    THEN build_canonical_from_verses(canonical, verses)
                    ELSE canonical
  /\ verse_id' = IF dbReady THEN attach_verse_ids(verse_id, canonical')
                 ELSE verse_id
  /\ last' = Call("build_spine", <<>>, <<>>, 0, 0,
                  spine_outcome(canonical', verse_id'))
  /\ dbFile' = connect_file(FALSE, last'.out.connects)
  /\ UNCHANGED <<policyTables, coreTables, canon, dbReady, verses,
                 translations>>

InitSpine ==
  /\ canon = StandardCanon
  /\ dbFile = FALSE
  /\ dbReady = FALSE
  /\ verses = {}
  /\ translations = {}
  /\ OtherTablesEmpty
  /\ last = Idle

NextSpine ==
  \/ InitSchema
  \/ \E sheet \in Sheets, code \in ImportCodes, overwrite \in BOOLEAN,
        dry_run \in BOOLEAN : ImportBible(sheet, code, overwrite, dry_run)
  \/ BuildSpine
  \/ Exit

SpineSpec == InitSpine /\ [][NextSpine]_vars

----------------------------------------------------------------------------
(* The spine after build_spine, and over repeated runs.                    *)

\* normalized_ref values present in the verse table
StoredRefs == {r.normalized_ref : r \in verses}

\* C23: after build_spine completes, canonical_verses holds exactly one row
\* for each distinct normalized_ref present in the verse table, however
\* many translations contain it, and every verse row's verse_id is the id
\* of the canonical row with the same normalized_ref, so that rows of
\* different translations for the same verse share one verse_id
C23_SpineCoversVerses ==
  last.op = "build_spine" =>
    /\ \A ref \in StoredRefs :
         Cardinality({c \in canonical : c.normalized_ref = ref}) = 1
    /\ \A r \in verses :
         /\ verse_id[r] # 0
         /\ \E c \in canonical : c.id = verse_id[r]
         /\ \A c \in canonical :
              (c.id = verse_id[r]) <=> (c.normalized_ref = r.normalized_ref)
    /\ \A r1, r2 \in verses :
         r1.normalized_ref = r2.normalized_ref => verse_id[r1] = verse_id[r2]

\* build_spine has run on a table in which two translations hold the same
\* verse, and the two rows carry the same verse_id
C23_Witness ==
  /\ last.op = "build_spine"
  /\ \E r1, r2 \in verses :
       /\ r1.translation_code # r2.translation_code
       /\ r1.normalized_ref = r2.normalized_ref
       /\ verse_id[r1] # 0
       /\ verse_id[r1] = verse_id[r2]

\* every verse row has its verse_id (what a completed build_spine leaves)
SpineComplete == \A r \in verses : verse_id[r] # 0

\* C26: build_spine is safe to run repeatedly: a run on a complete spine
\* (a second run with no import in between) changes no row; a run after
\* further imports only adds canonical rows for normalized_ref values not
\* yet present and only fills verse_id values that were NULL; no canonical
\* id and no assigned verse_id ever changes
C26_BuildSpineRepeatable ==
  [][last'.op = "build_spine" =>
       /\ verses' = verses
       /\ canonical \subseteq canonical'
       /\ \A c \in canonical' \ canonical :
            \A d \in canonical : d.normalized_ref # c.normalized_ref
       /\ DOMAIN verse_id' = DOMAIN verse_id
       /\ \A r \in DOMAIN verse_id :
            verse_id[r] # 0 => verse_id'[r] = verse_id[r]
       /\ (SpineComplete /\ verseIdColumn) =>
            /\ canonical' = canonical
            /\ verse_id' = verse_id
            /\ verseIdColumn' = verseIdColumn
    ]_vars

\* build_spine has run after a further import: the canonical row of John
\* 3:16 was numbered by an earlier run, before the rows of Genesis, which a
\* single run numbers first, and verse rows point at both
C26_Witness ==
  /\ last.op = "build_spine"
  /\ \E c1, c2 \in canonical :
       /\ c1.id < c2.id
       /\ StrLess(c2.book_code, c1.book_code)
       /\ \E r1, r2 \in verses : verse_id[r1] = c1.id /\ verse_id[r2] = c2.id

\* canonical_verses keeps the rows of verses that an overwriting import has
\* removed since: it never shrinks
C23_CanonicalRowsStay ==
  [][canonical \subseteq canonical']_vars

----------------------------------------------------------------------------
(* Overwriting imports.                                                    *)

\* the book number the import gives a sheet row (0: the row is skipped)
SheetBook(row) ==
  loader_resolve_book(row.book, build_book_lookup(load_canon(canon)))

\* book, chapter, verse and text of the rows the import prepares from a
\* sheet
PreparedRows(sheet) ==
  {<<SheetBook(sheet[i]), sheet[i].chapter, sheet[i].verse,
     Strip(sheet[i].text)>> :
     i \in {j \in 1..Len(sheet) : SheetBook(sheet[j]) # 0}}

\* book, chapter, verse and text of the stored rows of a translation
StoredRows(table, tc) ==
  {<<r.book_num, r.chapter, r.verse, r.text>> :
     r \in {q \in table : q.translation_code = tc}}

\* the rows of the other translations
OtherRows(table, tc) == {q \in table : q.translation_code # tc}

\* C24: import_bible_from_excel with overwrite=True is all-or-nothing on
\* the verse table: after the call either every pre-existing row of the
\* translation is gone and exactly the prepared rows are present, or the
\* verse table is unchanged, which is the case whenever the insertion
\* fails; the deletion is never committed without the insertion, and the
\* translation is registered only after the verses are committed
C24_OverwriteAllOrNothing ==
  [][(last'.op = "import" /\ last'.overwrite) =>
       /\ \/ verses' = verses
          \/ /\ StoredRows(verses', Upper(last'.codes[1]))
                  = PreparedRows(last'.sheet)
             /\ OtherRows(verses', Upper(last'.codes[1]))
                  = OtherRows(verses, Upper(last'.codes[1]))
       /\ last'.out.raised => verses' = verses
       /\ StoredRows(verses', Upper(last'.codes[1])) = {}
            => StoredRows(verses, Upper(last'.codes[1])) = {}
       /\ translations' # translations =>
            /\ ~last'.out.raised
            /\ StoredRows(verses', Upper(last'.codes[1]))
                 = PreparedRows(last'.sheet)
            /\ PreparedRows(last'.sheet) # {}
    ]_vars

\* an overwriting import has failed in executemany and the rows the
\* translation had before are all still there
C24_Witness ==
  /\ last.op = "import"
  /\ last.overwrite
  /\ last.out.raised
  /\ StoredRows(verses, Upper(last.codes[1])) # {}

----------------------------------------------------------------------------
(* The list get_parallel_verses returns.                                   *)

\* the stored rows that match the last call's reference under one of the
\* requested translations
MatchingReference ==
  IF last.out.parsed.ok /\ BookResolved
    THEN {r \in verses :
            /\ r.translation_code \in RequestedCodes
            /\ r.book_num = resolve_book_num(last.out.parsed.book,
                                             build_book_lookup(canon))
            /\ r.chapter = last.out.parsed.chapter
            /\ r.verse >= last.out.parsed.v_start
            /\ r.verse <= last.out.parsed.v_end}
    ELSE {}

\* one record for each verse number of the parsed range, in ascending
\* order, with an empty mapping where no requested translation has the
\* verse
OneRecordPerVerse ==
  /\ Len(last.out.rows)
       = last.out.parsed.v_end - last.out.parsed.v_start + 1
  /\ \A k \in 1..Len(last.out.rows) :
       /\ last.out.rows[k].verse = last.out.parsed.v_start + k - 1
       /\ (\A r \in MatchingReference : r.verse # last.out.rows[k].verse)
            => DOMAIN last.out.rows[k].texts = {}

\* C27: when at least one stored row matches, get_parallel_verses returns
\* exactly one record for each verse number from verse_start to verse_end
\* inclusive, in ascending verse order, with an empty translation mapping
\* for each verse number no requested translation contains; when no row
\* matches, or no translation code is given, it returns the empty list
C27_OneRecordPerVerse ==
  last.op \in {"parallel", "compare"} =>
    /\ ~last.out.raised
    /\ IF last.codes # <<>> /\ MatchingReference # {}
         THEN OneRecordPerVerse
         ELSE last.out.rows = <<>>

\* the part of C27 the facade meets: whenever the call returns instead of
\* raising, the returned list is as C27 describes it
C27_OneRecordPerVerseWhenReturned ==
  (last.op \in {"parallel", "compare"} /\ ~last.out.raised) =>
    IF last.codes # <<>> /\ MatchingReference # {}
      THEN OneRecordPerVerse
      ELSE last.out.rows = <<>>

\* a call returned a record with an empty mapping between records that
\* have texts
C27_ReturnedWithGap ==
  /\ last.op = "parallel"
  /\ MatchingReference # {}
  /\ \E k \in 1..Len(last.out.rows) : DOMAIN last.out.rows[k].texts = {}
  /\ \E k \in 1..Len(last.out.rows) : DOMAIN last.out.rows[k].texts # {}

----------------------------------------------------------------------------
(* Import and query agree on normalisation.                                *)

\* the book tokens under which a sheet names the stored row r
SheetTokens(r) ==
  UNION {{sheet[i].book : i \in {j \in 1..Len(sheet) :
                                   /\ sheet[j].chapter = r.chapter
                                   /\ sheet[j].verse = r.verse
                                   /\ sheet[j].text = r.text}} :
         sheet \in Sheets}

\* the last call's reference is '<b'> c:v' for a case variant b' of b
RefIsCaseVariant(b, c, v) ==
  /\ Len(last.ref) > Len(b)
  /\ Lower(SubSeq(last.ref, 1, Len(b))) = Lower(b)
  /\ SubSeq(last.ref, Len(b) + 1, Len(last.ref))
       = <<" ">> \o IntToStr(c) \o <<":">> \o IntToStr(v)

\* the last call's translation code is a case variant of T
CodeIsCaseVariant(T) ==
  /\ Len(last.codes) = 1
  /\ Lower(last.codes[1]) = Lower(T)

----------------------------------------------------------------------------
(* The book ids of the legacy CSV import.                                  *)

\* the rows of the CSV import_bible_csv has stored a verse for
StoredCsvRows ==
  {i \in 1..Len(last.out.book_ids) : LegacyCsv[i].numeric}

\* C29: within one Bible version, get_or_create_book returns the same id
\* for the same book name on every call and different ids for different
\* book names, so verses imported under two different book names of one
\* version are never stored under the same book
C29_BookIdsFollowNames ==
  last.op = "import_bible_csv" =>
    \A i \in StoredCsvRows : \A j \in StoredCsvRows :
      (LegacyCsv[i].book = LegacyCsv[j].book)
        <=> (last.out.book_ids[i] = last.out.book_ids[j])

\* the half of C29 the code meets: the same book name gets the same id on
\* every call, and two names get the same id only when the codes
\* get_or_create_book looks them up by are equal
C29_SameNameSameId ==
  last.op = "import_bible_csv" =>
    \A i \in StoredCsvRows : \A j \in StoredCsvRows :
      /\ (LegacyCsv[i].book = LegacyCsv[j].book)
           => (last.out.book_ids[i] = last.out.book_ids[j])
      /\ (last.out.book_ids[i] = last.out.book_ids[j])
           => \/ LegacyCsv[i].book = LegacyCsv[j].book
              \/ book_code_or_prefix(LegacyCsv[i].book,
                                     LegacyCsv[i].book_code)
                   = book_code_or_prefix(LegacyCsv[j].book,
                                         LegacyCsv[j].book_code)

\* the import has stored verses for Genesis and for Exodus under two ids
C29_TwoBooksStored ==
  /\ last.op = "import_bible_csv"
  /\ \E i \in StoredCsvRows : \E j \in StoredCsvRows :
       /\ LegacyCsv[i].book = S_Genesis
       /\ LegacyCsv[j].book = S_Exodus
       /\ last.out.book_ids[i] # last.out.book_ids[j]

----------------------------------------------------------------------------
(* Core passage units: core_passages.py.                                   *)

\* None where a str is expected: a JSON null read by json.load
None == <<"None">>

S_Romans_8_18 == <<"R","o","m","a","n","s"," ","8",":","1","8">>

S_Romans_8_19 == <<"R","o","m","a","n","s"," ","8",":","1","9">>

S_Romans_9_1 == <<"R","o","m","a","n","s"," ","9",":","1">>

S_RomansPipe_8_18 == <<"R","o","m","a","n","s","|","8",":","1","8">>

\* ref, unit_id and the NOT NULL columns note_md and tags of a verse note
VerseNoteRow(ref, unit_id, note_md, tags) ==
  [ref |-> ref, unit_id |-> unit_id, note_md |-> note_md, tags |-> tags]

\* ref, unit_id and the NOT NULL columns lemma_greek and note_md of a
\* Greek margin
GreekMarginRow(ref, unit_id, lemma_greek, note_md) ==
  [ref |-> ref, unit_id |-> unit_id, lemma_greek |-> lemma_greek,
   note_md |-> note_md]

CorePassageUnit(unit_id, title, notes, margins) ==
  [unit_id |-> unit_id, title |-> title, verse_notes |-> notes,
   greek_margins |-> margins]

\* s.replace(a, b) for one-character a and b
Replace(s, a, b) == [i \in 1..Len(s) |-> IF s[i] = a THEN b ELSE s[i]]

\* alt = r.replace(" ", "|") if " " in r else r.replace("|", " ")
alternate_ref(r) ==
  IF \E i \in 1..Len(r) : r[i] = " "
    THEN Replace(r, " ", "|") ELSE Replace(r, "|", " ")

\* all_refs: the set of the refs of the unit's notes and margins
all_refs(unit) ==
  {unit.verse_notes[i].ref : i \in 1..Len(unit.verse_notes)}
    \cup {unit.greek_margins[i].ref : i \in 1..Len(unit.greek_margins)}

\* the orders list(refs) can give the elements of the set all_refs
RefOrders(refs) ==
  {o \in [1..Cardinality(refs) -> refs] : \A r \in refs : \E i \in DOMAIN o :
                                             o[i] = r}

\* expanded_refs: every ref and its alternate format
expanded_refs(order) ==
  {order[i] : i \in DOMAIN order}
    \cup {alternate_ref(order[i]) : i \in DOMAIN order}

\* ref_map[key]: the ref whose pass of the loop wrote the key last
ref_map(order, key) ==
  order[SetMax({i \in DOMAIN order :
                  key \in {order[i], alternate_ref(order[i])}})]

\* found: the original ref and id of each row the SELECT ... WHERE
\* verse_ref IN (expanded_refs) returns
found_refs(table, order) ==
  {[ref |-> ref_map(order, row.verse_ref), id |-> row.id] :
     row \in {x \in table : x.verse_ref \in expanded_refs(order)}}

\* missing = [r for r in refs if r not in found]
missing_refs(table, order) ==
  {order[i] : i \in DOMAIN order}
    \ {f.ref : f \in found_refs(table, order)}

\* verse_id_map[ref]
verse_id_map(fnd, ref) == SetMax({f.id : f \in {x \in fnd : x.ref = ref}})

\* INSERT INTO core_passages ... ON CONFLICT(unit_id) DO UPDATE
upsert_passage(table, unit) ==
  {p \in table : p.unit_id # unit.unit_id}
    \cup {[unit_id |-> unit.unit_id, title |-> unit.title]}

\* INSERT OR IGNORE skips a row with NULL in a NOT NULL column
note_ignored(note) == note.note_md = None \/ note.tags = None

margin_ignored(margin) ==
  margin.lemma_greek = None \/ margin.note_md = None

\* INSERT OR IGNORE INTO verse_notes for one note
insert_note(table, note, fnd) ==
  IF note_ignored(note) THEN table
  ELSE table \cup {[id |-> lastrowid(table),
                    verse_id |-> verse_id_map(fnd, note.ref),
                    unit_id |-> note.unit_id, note_md |-> note.note_md,
                    tags |-> note.tags]}

\* for note in unit.verse_notes
RECURSIVE insert_notes(_, _, _)
insert_notes(table, notes, fnd) ==
  IF notes = <<>> THEN table
  ELSE insert_notes(insert_note(table, Head(notes), fnd), Tail(notes), fnd)

\* INSERT OR IGNORE INTO greek_margins for one margin
insert_margin(table, margin, fnd) ==
  IF margin_ignored(margin) THEN table
  ELSE table \cup {[id |-> lastrowid(table),
                    verse_id |-> verse_id_map(fnd, margin.ref),
                    unit_id |-> margin.unit_id,
                    lemma_greek |-> margin.lemma_greek,
                    note_md |-> margin.note_md]}

\* for margin in unit.greek_margins
RECURSIVE insert_margins(_, _, _)
insert_margins(table, margins, fnd) ==
  IF margins = <<>> THEN table
  ELSE insert_margins(insert_margin(table, Head(margins), fnd),
                      Tail(margins), fnd)

\* install_unit raises: RuntimeError from get_verse_ids_by_ref when a ref
\* is missing, else sqlite3.OperationalError from the first INSERT when
\* the core passage schema has not been created
install_raises(ready, table, order) ==
  missing_refs(table, order) # {} \/ ~ready

\* conn.commit() after install_unit, conn.rollback() when it raised
commit_or_rollback(table, written, raised) ==
  IF raised THEN table ELSE written

\* what cmd_add_from_json prints, or the exception it re-raises
install_outcome(unit, raised, notes_added, margins_added) ==
  [raised |-> raised, unit |-> unit,
   notes_added |-> IF raised THEN 0 ELSE notes_added,
   margins_added |-> IF raised THEN 0 ELSE margins_added]

\* largest number of rows in verse_notes and in greek_margins
MaxNoteRows == 4

U_ROM == <<"U","1">>

U_ROM2 == <<"U","2">>

T_a == <<"a">>

T_b == <<"b">>

\* every ref is in berean_verses
UnitPresent ==
  CorePassageUnit(U_ROM, T_a,
    << VerseNoteRow(S_Romans_8_18, U_ROM, T_a, <<>>) >>,
    << GreekMarginRow(S_Romans_8_19, U_ROM, T_a, <<>>) >>)

\* the margin names a verse berean_verses does not have
UnitMissing ==
  CorePassageUnit(U_ROM, T_b,
    << VerseNoteRow(S_Romans_8_18, U_ROM, T_b, <<>>) >>,
    << GreekMarginRow(S_Romans_9_1, U_ROM, T_b, <<>>) >>)

\* the note names its verse in the 'Book|c:v' format
UnitPipe ==
  CorePassageUnit(U_ROM2, T_a,
    << VerseNoteRow(S_RomansPipe_8_18, U_ROM2, T_a, <<>>) >>, <<>>)

\* the first note has "tags": null in the JSON file
UnitNullTags ==
  CorePassageUnit(U_ROM2, T_b,
    << VerseNoteRow(S_Romans_8_18, U_ROM2, T_a, None),
       VerseNoteRow(S_Romans_8_19, U_ROM2, T_b, <<>>) >>, <<>>)

\* the note and the margin name one verse in the two formats
UnitMixed ==
  CorePassageUnit(U_ROM2, T_a,
    << VerseNoteRow(S_Romans_8_18, U_ROM2, T_a, <<>>) >>,
    << GreekMarginRow(S_RomansPipe_8_18, U_ROM2, T_b, <<>>) >>)

Units == {UnitPresent, UnitMissing, UnitPipe, UnitNullTags, UnitMixed}

\* berean_verses as import_berean.py fills it: 'Book c:v' references
BereanRomans ==
  {[id |-> 1, verse_ref |-> S_Romans_8_18],
   [id |-> 2, verse_ref |-> S_Romans_8_19]}

InitCore ==
  /\ canon = <<>>
  /\ dbFile = TRUE
  /\ dbReady = FALSE
  /\ verses = {}
  /\ translations = {}
  /\ CommandTablesEmpty
  /\ berean_verses \in {{}, BereanRomans}
  /\ coreReady = FALSE
  /\ core_passages = {}
  /\ verse_notes = {}
  /\ greek_margins = {}
  /\ last = Idle

\* core_passages.cmd_init_schema
CoreInitSchema ==
  /\ last.op = "idle"
  /\ ~coreReady
  /\ coreReady' = TRUE
  /\ UNCHANGED <<policyTables, spineTables, berean_verses, core_passages,
                 verse_notes, greek_margins, canon, dbFile, dbReady, verses,
                 translations, last>>

\* cmd_add_from_json: install_unit inside one transaction, committed when
\* it returns and rolled back when it raises; order is the order in which
\* get_verse_ids_by_ref meets the elements of the set all_refs
CmdAddFromJson(unit, order) ==
  /\ last.op = "idle"
  /\ Cardinality(verse_notes) + Len(unit.verse_notes) <= MaxNoteRows
  /\ Cardinality(greek_margins) + Len(unit.greek_margins) <= MaxNoteRows
  /\ core_passages' =
       commit_or_rollback(core_passages, upsert_passage(core_passages, unit),
                          install_raises(coreReady, berean_verses, order))
  /\ verse_notes' =
       commit_or_rollback(verse_notes,
                          insert_notes(verse_notes, unit.verse_notes,
                                       found_refs(berean_verses, order)),
                          install_raises(coreReady, berean_verses, order))
  /\ greek_margins' =
       commit_or_rollback(greek_margins,
                          insert_margins(greek_margins, unit.greek_margins,
                                         found_refs(berean_verses, order)),
                          install_raises(coreReady, berean_verses, order))
  /\ last' = Call("add_from_json", <<>>, <<>>, 0, 0,
                  install_outcome(unit,
                    install_raises(coreReady, berean_verses, order),
                    Cardinality(verse_notes') - Cardinality(verse_notes),
                    Cardinality(greek_margins')
                      - Cardinality(greek_margins)))
  /\ UNCHANGED <<policyTables, spineTables, berean_verses, coreReady, canon,
                 dbFile, dbReady, verses, translations>>

NextCore ==
  \/ CoreInitSchema
  \/ \E unit \in Units :
        \E order \in RefOrders(all_refs(unit)) : CmdAddFromJson(unit, order)
  \/ Exit

CoreSpec == InitCore /\ [][NextCore]_vars

----------------------------------------------------------------------------
(* Installing a core passage unit.                                         *)

\* the refs of the unit the verse table has under neither format
AbsentRefs(unit) ==
  {r \in all_refs(unit) :
     \A row \in berean_verses :
       row.verse_ref # r /\ row.verse_ref # alternate_ref(r)}

\* the step leaves the three core passage tables as they were
CoreTablesUnchanged ==
  UNCHANGED <<core_passages, verse_notes, greek_margins>>

\* the step has stored the passage row, one new verse_notes row for every
\* note of the unit and one new greek_margins row for every margin
UnitCommitted(unit) ==
  /\ \E p \in core_passages' :
       p.unit_id = unit.unit_id /\ p.title = unit.title
  /\ Cardinality(verse_notes' \ verse_notes) = Len(unit.verse_notes)
  /\ \A i \in 1..Len(unit.verse_notes) :
       \E n \in verse_notes' \ verse_notes :
         /\ n.unit_id = unit.verse_notes[i].unit_id
         /\ n.note_md = unit.verse_notes[i].note_md
  /\ Cardinality(greek_margins' \ greek_margins) = Len(unit.greek_margins)
  /\ \A i \in 1..Len(unit.greek_margins) :
       \E m \in greek_margins' \ greek_margins :
         /\ m.unit_id = unit.greek_margins[i].unit_id
         /\ m.note_md = unit.greek_margins[i].note_md

\* the step is an install of a unit into a database that has the core
\* passage schema
InstallStep == last'.op = "add_from_json" /\ coreReady

\* C25: installing a core passage unit is all-or-nothing: if a verse
\* reference named by one of its notes or Greek margins is absent from the
\* verse table, the install fails and no row of core_passages, verse_notes
\* or greek_margins is added or changed; otherwise the passage row, every
\* note and every margin are committed together
C25_InstallAllOrNothing ==
  [][InstallStep =>
       IF AbsentRefs(last'.out.unit) # {}
         THEN last'.out.raised /\ CoreTablesUnchanged
         ELSE ~last'.out.raised /\ UnitCommitted(last'.out.unit)]_vars

\* a unit none of whose NOT NULL columns is None and which names no verse
\* in both formats
WellFormedUnit(unit) ==
  /\ \A i \in 1..Len(unit.verse_notes) :
       unit.verse_notes[i].note_md # None /\ unit.verse_notes[i].tags # None
  /\ \A i \in 1..Len(unit.greek_margins) :
       /\ unit.greek_margins[i].lemma_greek # None
       /\ unit.greek_margins[i].note_md # None
  /\ \A r \in all_refs(unit) :
       alternate_ref(r) = r \/ alternate_ref(r) \notin all_refs(unit)

\* the part of C25 the code meets: an install that fails changes nothing,
\* and the install of a well-formed unit is all-or-nothing as C25 says
C25_WellFormedAllOrNothing ==
  [][InstallStep =>
       /\ last'.out.raised => CoreTablesUnchanged
       /\ WellFormedUnit(last'.out.unit) =>
            IF AbsentRefs(last'.out.unit) # {}
              THEN last'.out.raised /\ CoreTablesUnchanged
              ELSE ~last'.out.raised /\ UnitCommitted(last'.out.unit)]_vars

\* a unit was installed over an earlier one, and a later install failed
\* without changing it
C25_InstalledThenRefused ==
  /\ last.op = "add_from_json"
  /\ last.out.raised
  /\ last.out.unit = UnitMissing
  /\ \E p \in core_passages : p.unit_id = U_ROM /\ p.title = T_a
  /\ verse_notes # {}
  /\ greek_margins # {}

====
